---- MODULE Spec2Model ----
(***************************************************************************)
(* Model of the Comfy-UmiAI template expansion engine.                     *)
(*                                                                         *)
(* Text is a sequence of tokens.  A token is a string: either one of the   *)
(* delimiters the engine's regular expressions and scanners look for       *)
(* ("__", "<", ">", "{", "}", "[", "]", "|", ":", "$", "$$", "#", "=",     *)
(* "==", ";", ",", "\\", " ", "\n", ...) or a maximal run of other          *)
(* characters (a word such as "solo" or "WILDCARD_NOT_FOUND").  Templates  *)
(* never put two words next to each other without a delimiter, so a word   *)
(* token is a whole word of the underlying string.                         *)
(***************************************************************************)
EXTENDS Integers, Sequences, FiniteSets, TLC

VARIABLES
    entry,        \* the operation the caller invoked
    pc,           \* position inside that operation
    text,         \* the template handed to process()
    seed,         \* the seed handed to process()
    stream,       \* output of random.Random(seed), <<>> until a draw is made
    run,          \* 1 or 2: which of two identical calls of process() runs
    prompt, previous_prompt, iterations, prompt_history,   \* locals of process()
    variables,    \* VariableReplacer.variables
    sel,          \* TagSelector: variables, rng, counters, negatives
    dyn,          \* DynamicPromptReplacer: rng
    replace_count, \* count of the last TagReplacer.replace of the loop body
    cond_iter,    \* iteration of the last ConditionalReplacer.replace
    exc,          \* exception propagating out of the call ("" when none)
    result,       \* (positive, negative) returned by the call
    first_result, \* outcome of the first of the two calls
    variant,      \* which TagLoader the threads construct: nodes.py or nodes_lite.py
    GLOBAL_INDEX, \* the module-level index shared by all TagLoader objects (nodes.py)
    GLOBAL_INDEX_LITE, \* the module-level index of nodes_lite.py
    loader,       \* per thread: the TagLoader it runs build_index() of
    file,         \* the wildcard file on disk: content and modification time
    GLOBAL_CACHE, \* GLOBAL_CACHE[name], "absent" when the name is not cached
    FILE_MTIME_CACHE, \* FILE_MTIME_CACHE[name]['mtime'], "absent" when not recorded
    call          \* the load_tags(name) call in progress and its locals

process_vars == <<entry, pc, text, seed, stream, run, prompt, previous_prompt, iterations,
                  prompt_history, variables, sel, dyn, replace_count, cond_iter, exc,
                  result, first_result>>
index_vars == <<variant, GLOBAL_INDEX, GLOBAL_INDEX_LITE, loader>>
cache_vars == <<file, GLOBAL_CACHE, FILE_MTIME_CACHE, call>>
vars == <<process_vars, index_vars, cache_vars>>

-----------------------------------------------------------------------------
(* Bounds of the model *)

\* Length of the modelled output stream of random.Random(seed)
StreamLen == 2
\* Number of distinct values one draw of the stream can take
DrawRange == 2
\* Largest clock reading (milliseconds) a call can observe
MaxClock == 2
\* Largest seed a caller passes
MaxSeed == 1

-----------------------------------------------------------------------------
(* Token helpers *)

WS == {" ", "\n"}

MinOf(S) == CHOOSE i \in S : \A j \in S : i <= j
MaxOf(S) == CHOOSE i \in S : \A j \in S : i >= j

\* text[a..b] with Python slice forgiveness
Slice(s, a, b) == IF a > b THEN <<>> ELSE SubSeq(s, IF a < 1 THEN 1 ELSE a, IF b > Len(s) THEN Len(s) ELSE b)

Has(s, tok) == \E i \in 1..Len(s) : s[i] = tok

\* index of the first occurrence of a token of T at or after from, 0 if none (str.find)
FirstOf(s, from, T) ==
    LET S == {i \in from..Len(s) : s[i] \in T}
    IN IF S = {} THEN 0 ELSE MinOf(S)

\* str.strip()
Strip(s) ==
    LET S == {i \in 1..Len(s) : s[i] \notin WS}
    IN IF S = {} THEN <<>> ELSE SubSeq(s, MinOf(S), MaxOf(S))

\* index of the first token at or after k that is not white space
SkipSpace(s, k) ==
    LET S == {i \in k..Len(s) : s[i] \notin WS}
    IN IF S = {} THEN Len(s) + 1 ELSE MinOf(S)

\* does pat occur in s at position i
OccursAt(s, pat, i) ==
    /\ i >= 1
    /\ i + Len(pat) - 1 <= Len(s)
    /\ \A k \in 1..Len(pat) : s[i + k - 1] = pat[k]

\* first position at or after from where pat occurs, 0 if none
FindSeq(s, pat, from) ==
    LET S == {i \in from..Len(s) : OccursAt(s, pat, i)}
    IN IF S = {} THEN 0 ELSE MinOf(S)

\* str.replace(pat, rep): every non-overlapping occurrence, left to right
RECURSIVE ReplaceFrom(_, _, _, _)
ReplaceFrom(s, pat, rep, from) ==
    LET i == FindSeq(s, pat, from)
    IN IF i = 0 THEN Slice(s, from, Len(s))
       ELSE Slice(s, from, i - 1) \o rep \o ReplaceFrom(s, pat, rep, i + Len(pat))

ReplaceAll(s, pat, rep) == ReplaceFrom(s, pat, rep, 1)

\* number of tokens tok in s[a..b]
CountIn(s, tok, a, b) == Cardinality({k \in a..b : k >= 1 /\ k <= Len(s) /\ s[k] = tok})

\* dict[k] = v
Put(d, k, v) == [x \in DOMAIN d \cup {k} |-> IF x = k THEN v ELSE d[x]]
\* dict.get(k, default)
Get(d, k, default) == IF k \in DOMAIN d THEN d[k] ELSE default
EmptyDict == [x \in {} |-> <<>>]
\* set(s)
Range(s) == {s[i] : i \in 1..Len(s)}

\* Let(value, LAMBDA x : e) is e with x standing for value: the result of a
\* call is computed once and then read under a local name
Let(value, In(_)) == In(value)

\* str.lower() of a token, for the tokens of the model that have upper case forms
Lower(tok) ==
    CASE tok = "A" -> "a" [] tok = "B" -> "b" [] tok = "C" -> "c"
      [] tok = "X" -> "x" [] tok = "Y" -> "y"
      [] tok = "YES" -> "yes" [] tok = "NO" -> "no"
      [] OTHER -> tok
LowerSeq(s) == [i \in 1..Len(s) |-> Lower(s[i])]

-----------------------------------------------------------------------------
(* LogicEvaluator (shared_utils.py) *)

\* Delimiter tokens: every other token is a word (its characters match \w)
Delims == {"__", "<", ">", "{", "}", "[", "]", "|", ":", "$", "$$", "#", "=", "==",
           ";", ",", "\\", " ", "\n", "(", ")", "&&", "||", "!", "^", "'", "%",
           "-", "--", "//", "**", "@", "~", "*", "?", ".", "\""}
IsWord(tok) == tok \notin Delims

\* the table with XOR at the level of AND and NAND
precedenceXorAbove ==
    [NOT |-> 3, AND |-> 2, NAND |-> 2, XOR |-> 2, OR |-> 1, NOR |-> 1,
     CONTAINS |-> 4, MATCHES |-> 4, STARTSWITH |-> 4, ENDSWITH |-> 4]

precedence ==
    [NOT |-> 3, AND |-> 2, NAND |-> 2, XOR |-> 1, OR |-> 1, NOR |-> 1,
     CONTAINS |-> 4, MATCHES |-> 4, STARTSWITH |-> 4, ENDSWITH |-> 4]
WordOps == DOMAIN precedence
Upper(tok) ==
    CASE tok = "and" -> "AND" [] tok = "or" -> "OR" [] tok = "not" -> "NOT"
      [] tok = "xor" -> "XOR" [] tok = "nand" -> "NAND" [] tok = "nor" -> "NOR"
      [] tok = "contains" -> "CONTAINS" [] tok = "matches" -> "MATCHES"
      [] tok = "startswith" -> "STARTSWITH"
      [] tok = "endswith" -> "ENDSWITH"
      [] OTHER -> tok

\* _normalize_expression: a single "=" becomes "==", blanks around "==" go
RECURSIVE DropBlanksAroundEq(_, _)
DropBlanksAroundEq(e, i) ==
    IF i > Len(e) THEN <<>>
    ELSE IF e[i] \in WS
              /\ \E j \in 1..Len(e) : /\ e[j] = "=="
                                      /\ \/ (j > i /\ \A k \in i..(j-1) : e[k] \in WS)
                                         \/ (j < i /\ \A k \in (j+1)..i : e[k] \in WS)
         THEN DropBlanksAroundEq(e, i + 1)
         ELSE <<e[i]>> \o DropBlanksAroundEq(e, i + 1)

_normalize_expression(expr) ==
    LET eq == [i \in 1..Len(expr) |-> IF expr[i] = "=" THEN "==" ELSE expr[i]]
    IN DropBlanksAroundEq(eq, 1)

\* is_word_boundary(pos)
is_word_boundary(expr, pos) == pos < 1 \/ pos > Len(expr) \/ expr[pos] \in {" ", "\n", "(", ")"}

Flush(out, current) == IF current = <<>> THEN out ELSE Append(out, current)

\* tokenize: a logic token is a sequence of text tokens; an operator is a
\* one-element sequence holding the operator's upper-case name
RECURSIVE tokenize_from(_, _, _, _)
tokenize_from(expr, i, current, out) ==
    IF i > Len(expr) THEN Flush(out, current)
    ELSE LET c == expr[i] IN
         IF c \in {"(", ")"} THEN tokenize_from(expr, i + 1, <<>>, Append(Flush(out, current), <<c>>))
         ELSE IF c \in WS THEN tokenize_from(expr, i + 1, <<>>, Flush(out, current))
         ELSE IF c = "&&" THEN tokenize_from(expr, i + 1, <<>>, Append(Flush(out, current), <<"AND">>))
         ELSE IF c = "||" THEN tokenize_from(expr, i + 1, <<>>, Append(Flush(out, current), <<"OR">>))
         ELSE IF c = "!" THEN tokenize_from(expr, i + 1, <<>>, Append(Flush(out, current), <<"NOT">>))
         ELSE IF c = "^" THEN tokenize_from(expr, i + 1, <<>>, Append(Flush(out, current), <<"XOR">>))
         ELSE IF Upper(c) \in WordOps /\ is_word_boundary(expr, i - 1) /\ is_word_boundary(expr, i + 1)
              THEN tokenize_from(expr, i + 1, <<>>, Append(Flush(out, current), <<Upper(c)>>))
         ELSE tokenize_from(expr, i + 1, Append(current, c), out)

tokenize(expr) == tokenize_from(expr, 1, <<>>, <<>>)

IsOperator(tok) == Len(tok) = 1 /\ tok[1] \in WordOps

\* the while loop popping every operator, whatever its precedence
RECURSIVE PopAnyOperator(_, _, _)
PopAnyOperator(stack, output, p) ==
    IF stack # <<>> /\ IsOperator(stack[Len(stack)])
    THEN PopAnyOperator(SubSeq(stack, 1, Len(stack) - 1), Append(output, stack[Len(stack)]), p)
    ELSE [stack |-> stack, output |-> output]

\* the while loop of to_postfix that pops operators of higher or equal precedence
RECURSIVE PopHigher(_, _, _)
PopHigher(stack, output, p) ==
    IF stack # <<>> /\ IsOperator(stack[Len(stack)]) /\ precedence[stack[Len(stack)][1]] >= p
    THEN PopHigher(SubSeq(stack, 1, Len(stack) - 1), Append(output, stack[Len(stack)]), p)
    ELSE [stack |-> stack, output |-> output]

\* the while loop of to_postfix that pops down to the opening parenthesis
RECURSIVE PopToParen(_, _)
PopToParen(stack, output) ==
    IF stack # <<>> /\ stack[Len(stack)] # <<"(">>
    THEN PopToParen(SubSeq(stack, 1, Len(stack) - 1), Append(output, stack[Len(stack)]))
    ELSE [stack |-> IF stack # <<>> THEN SubSeq(stack, 1, Len(stack) - 1) ELSE stack,
          output |-> output]

Reverse(s) == [i \in 1..Len(s) |-> s[Len(s) + 1 - i]]

RECURSIVE to_postfix_from(_, _, _, _)
to_postfix_from(tokens, i, stack, output) ==
    IF i > Len(tokens) THEN output \o Reverse(stack)
    ELSE LET token == tokens[i] IN
         IF IsOperator(token)
         THEN LET r == PopHigher(stack, output, precedence[token[1]])
              IN to_postfix_from(tokens, i + 1, Append(r.stack, token), r.output)
         ELSE IF token = <<"(">> THEN to_postfix_from(tokens, i + 1, Append(stack, token), output)
         ELSE IF token = <<")">>
         THEN LET r == PopToParen(stack, output)
              IN to_postfix_from(tokens, i + 1, r.stack, r.output)
         ELSE to_postfix_from(tokens, i + 1, stack, Append(output, token))

to_postfix(tokens) == to_postfix_from(tokens, 1, <<>>, <<>>)

\* values on the evaluation stack
BoolVal(b) == [kind |-> "bool", b |-> b, v |-> <<>>]
VarVal(name) == [kind |-> "var", b |-> FALSE, v |-> name]
BareVal(value) == [kind |-> "bare", b |-> FALSE, v |-> value]

\* the name a sequence of tokens spells, "" when it is not one word
NameOf(s) == IF Len(s) = 1 THEN s[1] ELSE ""

Falsy == {<<>>, <<"false">>, <<"0">>, <<"no">>}

\* \btoken\b found in the lower-cased context text
WordAt(s, k) == k >= 1 /\ k <= Len(s) /\ IsWord(s[k])

WordIn(value, context) ==
    Let(LowerSeq(context), LAMBDA ctx :
    Let(LowerSeq(value), LAMBDA val :
        /\ val # <<>>
        /\ \E i \in 1..Len(ctx) :
             /\ OccursAt(ctx, val, i)
             /\ WordAt(ctx, i - 1) # IsWord(val[1])
             /\ WordAt(ctx, i + Len(val)) # IsWord(val[Len(val)])))

_coerce_bool(operand, vs, context) ==
    CASE operand.kind = "var" -> LowerSeq(Get(vs, NameOf(operand.v), <<>>)) \notin Falsy
      [] operand.kind = "bare" -> WordIn(operand.v, context)
      [] OTHER -> operand.b

\* $var==value and literal==value operands
Comparison(token, vs) ==
    Let(FirstOf(token, 1, {"=="}), LAMBDA k :
    Let(Strip(Slice(token, 1, k - 1)), LAMBDA left :
    Let(LowerSeq(Strip(Slice(token, k + 1, Len(token)))), LAMBDA right :
        IF left # <<>> /\ left[1] = "$"
        THEN LowerSeq(Get(vs, NameOf(Tail(left)), <<>>)) = right
        ELSE LowerSeq(left) = right)))

\* _coerce_str
_coerce_str(operand, vs) ==
    CASE operand.kind = "var" -> Get(vs, NameOf(operand.v), <<>>)
      [] operand.kind = "bare" -> operand.v
      [] OTHER -> IF operand.b THEN <<"True">> ELSE <<"False">>

StringOps == {"CONTAINS", "MATCHES", "STARTSWITH", "ENDSWITH"}

\* re.search(pattern, ...) raises re.error: an unterminated character set, or
\* a repetition with nothing to repeat
re_error(pattern) ==
    \/ Has(pattern, "[") /\ ~Has(pattern, "]")
    \/ pattern # <<>> /\ pattern[1] \in {"*", "?"}

\* left CONTAINS / MATCHES / STARTSWITH / ENDSWITH right, on lower-cased
\* strings; a pattern that compiles is a word, searched as it is
StringPredicate(op, left, right) ==
    CASE op = "CONTAINS" -> right = <<>> \/ FindSeq(left, right, 1) # 0
      [] op = "MATCHES" -> ~re_error(right) /\ (right = <<>> \/ FindSeq(left, right, 1) # 0)
      [] op = "STARTSWITH" -> OccursAt(left, right, 1)
      [] op = "ENDSWITH" -> Len(right) <= Len(left) /\ OccursAt(left, right, Len(left) - Len(right) + 1)

Binary(op, a, b) ==
    CASE op = "AND" -> a /\ b
      [] op = "OR" -> a \/ b
      [] op = "XOR" -> a # b
      [] op = "NAND" -> ~(a /\ b)
      [] op = "NOR" -> ~(a \/ b)

RECURSIVE evaluate_postfix_from(_, _, _, _, _)
evaluate_postfix_from(postfix, i, stack, vs, context) ==
    IF i > Len(postfix)
    THEN IF stack = <<>> THEN FALSE ELSE _coerce_bool(stack[1], vs, context)
    ELSE LET token == postfix[i]
             n == Len(stack)
         IN IF IsOperator(token) /\ n < (IF token[1] = "NOT" THEN 1 ELSE 2) THEN FALSE
            ELSE evaluate_postfix_from(postfix, i + 1,
                   IF IsOperator(token) /\ token[1] = "NOT"
                   THEN Append(SubSeq(stack, 1, n - 1), BoolVal(~_coerce_bool(stack[n], vs, context)))
                   ELSE IF IsOperator(token) /\ token[1] \in StringOps
                   THEN Append(SubSeq(stack, 1, n - 2),
                               BoolVal(StringPredicate(token[1], LowerSeq(_coerce_str(stack[n - 1], vs)),
                                                                 LowerSeq(_coerce_str(stack[n], vs)))))
                   ELSE IF IsOperator(token)
                   THEN Append(SubSeq(stack, 1, n - 2),
                               BoolVal(Binary(token[1], _coerce_bool(stack[n - 1], vs, context),
                                                        _coerce_bool(stack[n], vs, context))))
                   ELSE IF Has(token, "==") THEN Append(stack, BoolVal(Comparison(token, vs)))
                   ELSE IF token[1] = "$" THEN Append(stack, VarVal(Tail(token)))
                   ELSE Append(stack, BareVal(token)),
                   vs, context)

\* LogicEvaluator(expression, variables).evaluate(context)
evaluate(expression, vs, context) ==
    evaluate_postfix_from(to_postfix(tokenize(_normalize_expression(Strip(expression)))), 1, <<>>, vs, context)

-----------------------------------------------------------------------------
(* ConditionalReplacer (shared_utils.py) *)

\* self.if_start.search(text): index of the "[" of the first "[if " or 0
if_start_search(s) ==
    LET S == {i \in 1..(Len(s) - 2) : s[i] = "[" /\ s[i + 1] = "if" /\ s[i + 2] \in WS}
    IN IF S = {} THEN 0 ELSE MinOf(S)

\* _find_matching(text, start, open, close): index of the closer that brings
\* the depth back to zero, 0 when there is none (-1 in the source)
RECURSIVE MatchFrom(_, _, _, _, _)
MatchFrom(s, start, from, open_char, close_char) ==
    LET j == FirstOf(s, from, {close_char}) IN
    IF j = 0 THEN 0
    ELSE IF CountIn(s, close_char, start + 1, j) = CountIn(s, open_char, start + 1, j) + 1 THEN j
    ELSE MatchFrom(s, start, j + 1, open_char, close_char)

_find_matching(s, start, open_char, close_char) == MatchFrom(s, start, start + 1, open_char, close_char)

find_matching_bracket(s, start) == _find_matching(s, start, "[", "]")

\* _apply_local_vars: a branch text without a "$@name = value" statement is
\* emitted as it is
_apply_local_vars(text_value) == text_value

\* depth_bracket == 0 and depth_brace == 0 before position i
Depth0(rest, i) ==
    /\ CountIn(rest, "[", 1, i - 1) = CountIn(rest, "]", 1, i - 1)
    /\ CountIn(rest, "{", 1, i - 1) = CountIn(rest, "}", 1, i - 1)

IsElse(rest, i) == rest[i] = "else" /\ i + 1 <= Len(rest) /\ rest[i + 1] = ":"
IsElif(rest, i) == rest[i] = "elif"

\* positions of rest at which the scanners recognise else: or elif
Separators(rest) ==
    {i \in 1..Len(rest) : /\ IsElse(rest, i) \/ IsElif(rest, i)
                          /\ Depth0(rest, i)
                          /\ (i = 1 \/ rest[i - 1] \in WS)}

\* _find_colon(s, start_idx)
_find_colon(rest, start_idx) ==
    LET S == {i \in start_idx..Len(rest) :
                /\ rest[i] = ":"
                /\ CountIn(rest, "[", start_idx, i - 1) = CountIn(rest, "]", start_idx, i - 1)
                /\ CountIn(rest, "{", start_idx, i - 1) = CountIn(rest, "}", start_idx, i - 1)}
    IN IF S = {} THEN 0 ELSE MinOf(S)

NoParse == [ok |-> FALSE, start |-> 0, end |-> 0, branches |-> <<>>, else_text |-> <<>>]

\* the second loop of parse_conditional, which walks the elif / else chain
RECURSIVE ParseChain(_, _, _, _, _, _, _)
ParseChain(rest, from, segment_start, current_cond, branches, bstart, bend) ==
    Let({i \in Separators(rest) : i >= from}, LAMBDA S :
    IF S = {}
    THEN [ok |-> TRUE, start |-> bstart, end |-> bend,
          branches |-> Append(branches, [cond |-> current_cond,
                                         text |-> Strip(Slice(rest, segment_start, Len(rest)))]),
          else_text |-> <<>>]
    ELSE Let(MinOf(S), LAMBDA i :
         Let(Append(branches, [cond |-> current_cond,
                               text |-> Strip(Slice(rest, segment_start, i - 1))]), LAMBDA done :
         IF IsElse(rest, i)
         THEN [ok |-> TRUE, start |-> bstart, end |-> bend, branches |-> done,
               else_text |-> Strip(Slice(rest, i + 2, Len(rest)))]
         ELSE Let(SkipSpace(rest, i + 1), LAMBDA cond_start :
              Let(_find_colon(rest, cond_start), LAMBDA colon_pos :
              IF colon_pos = 0 THEN NoParse
              ELSE ParseChain(rest, colon_pos + 1, colon_pos + 1,
                              Strip(Slice(rest, cond_start, colon_pos - 1)), done, bstart, bend))))))

\* parse_conditional(text, start): start is the index of the "[" of "[if "
parse_conditional(s, start) ==
    Let(find_matching_bracket(s, start), LAMBDA end :
    IF end = 0 THEN NoParse
    ELSE
    Let(Slice(s, start + 1, end - 1), LAMBDA inner :
    Let(SkipSpace(inner, 2), LAMBDA cstart :
    Let(FirstOf(inner, cstart + 1, {":"}), LAMBDA colon :
    IF colon = 0 THEN NoParse
    ELSE
    Let(Strip(Slice(inner, cstart, colon - 1)), LAMBDA condition :
    Let(Slice(inner, SkipSpace(inner, colon + 1), Len(inner)), LAMBDA rest :
    Let(Separators(rest), LAMBDA seps :
    Let({i \in 1..(IF seps = {} THEN Len(rest) ELSE MinOf(seps) - 1) :
            rest[i] = "|" /\ Depth0(rest, i)}, LAMBDA pipes :
    IF seps = {}
    THEN IF pipes = {}
         THEN [ok |-> TRUE, start |-> start, end |-> end,
               branches |-> <<[cond |-> condition, text |-> Strip(rest)]>>,
               else_text |-> <<>>]
         ELSE [ok |-> TRUE, start |-> start, end |-> end,
               branches |-> <<[cond |-> condition,
                               text |-> Strip(Slice(rest, 1, MaxOf(pipes) - 1))]>>,
               else_text |-> Strip(Slice(rest, MaxOf(pipes) + 1, Len(rest)))]
    ELSE ParseChain(rest, 1, 1, condition, <<>>, start, end)))))))))

Truthy == {<<"1">>, <<"true">>, <<"yes">>, <<"on">>}

\* index of the first branch whose condition holds, 0 if none
FirstTrueBranch(branches, context, vs) ==
    Let({i \in 1..Len(branches) : evaluate(branches[i].cond, vs, context)}, LAMBDA S :
        IF S = {} THEN 0 ELSE MinOf(S))

\* one iteration of the while loop of ConditionalReplacer.replace, for a
\* prompt in which if_start matches and parses
replace_conditional_once(p, vs) ==
    Let(parse_conditional(p, if_start_search(p)), LAMBDA parsed :
    Let(Slice(p, 1, parsed.start - 1) \o Slice(p, parsed.end + 1, Len(p)), LAMBDA context :
    Let(FirstTrueBranch(parsed.branches, context, vs), LAMBDA idx :
    Let(IF idx = 0 THEN _apply_local_vars(parsed.else_text)
        ELSE _apply_local_vars(parsed.branches[idx].text), LAMBDA replacement :
    Let(idx # 0 /\ LowerSeq(Strip(Get(vs, "trace", <<"None">>))) \in Truthy, LAMBDA traced :
        [prompt |-> Slice(p, 1, parsed.start - 1) \o replacement \o Slice(p, parsed.end + 1, Len(p)),
         variables |-> IF traced
                       THEN Put(Put(vs, "trace_last_condition", parsed.branches[idx].cond),
                                "trace_last_branch", <<ToString(idx - 1)>>)
                       ELSE vs])))))

\* if_start matches in the prompt and the match parses: neither break of the
\* while loop of ConditionalReplacer.replace is taken
CanReplaceConditional(p) ==
    Let(if_start_search(p), LAMBDA start : start # 0 /\ parse_conditional(p, start).ok)

max_conditional_iterations == 100

\* no block is masked
mask_nothing(masked_text, blocks) == [text |-> masked_text, blocks |-> blocks]

\* mask_conditionals: the blocks found, outermost and leftmost first
RECURSIVE mask_conditionals(_, _)
mask_conditionals(masked_text, blocks) ==
    Let(if_start_search(masked_text), LAMBDA i :
    Let(IF i = 0 THEN 0 ELSE find_matching_bracket(masked_text, i), LAMBDA end :
        IF i = 0 \/ end = 0
        THEN [text |-> masked_text, blocks |-> blocks]
        ELSE mask_conditionals(
               Slice(masked_text, 1, i - 1)
                 \o <<"%%UMI_IF_BLOCK_" \o ToString(Len(blocks)) \o "%%">>
                 \o Slice(masked_text, end + 1, Len(masked_text)),
               Append(blocks, Slice(masked_text, i, end)))))

\* unmask_conditionals: text.replace(token, content) for each block in order
RECURSIVE unmask_conditionals(_, _, _)
unmask_conditionals(s, blocks, k) ==
    IF k > Len(blocks) THEN s
    ELSE unmask_conditionals(
           ReplaceAll(s, <<"%%UMI_IF_BLOCK_" \o ToString(k - 1) \o "%%">>, blocks[k]), blocks, k + 1)

-----------------------------------------------------------------------------
(* random.Random(seed) *)

\* The output of random.Random(seed) is a fixed sequence of draws.  A call
\* context c carries the sequence (c.st), and one read position for each of
\* the two generators a render creates from the same seed: the selector's
\* (c.spos) and the dynamic prompt replacer's (c.dpos).
Streams == [1..StreamLen -> 0..(DrawRange - 1)]

\* the next draw of the selector's generator, reduced to 0..n-1
SelDraw(c, n) == c.st[(c.spos % StreamLen) + 1] % n
SelAdvance(c) == [c EXCEPT !.spos = @ + 1]
\* the next draw of the dynamic replacer's generator, reduced to 0..n-1
DynDraw(c, n) == c.st[(c.dpos % StreamLen) + 1] % n
DynAdvance(c) == [c EXCEPT !.dpos = @ + 1]

Raise(c, name) == [c EXCEPT !.exc = name]

-----------------------------------------------------------------------------
(* float: IEEE 754 binary64 *)

\* A natural number of any size is the sequence of its digits in base Limb,
\* lowest digit first, without leading zeros; <<>> is 0.
Limb == 2^18

RECURSIVE Trim(_)
Trim(a) == IF a # <<>> /\ a[Len(a)] = 0 THEN Trim(SubSeq(a, 1, Len(a) - 1)) ELSE a

NatOf(n) == Trim(<<n % Limb, n \div Limb>>)

Digit(a, i) == IF i <= Len(a) THEN a[i] ELSE 0

RECURSIVE AddFrom(_, _, _, _)
AddFrom(a, b, i, carry) ==
    IF i > Len(a) /\ i > Len(b) THEN (IF carry = 0 THEN <<>> ELSE <<carry>>)
    ELSE <<(Digit(a, i) + Digit(b, i) + carry) % Limb>>
         \o AddFrom(a, b, i + 1, (Digit(a, i) + Digit(b, i) + carry) \div Limb)

AddNat(a, b) == AddFrom(a, b, 1, 0)

\* a - b for a >= b
RECURSIVE SubFrom(_, _, _, _)
SubFrom(a, b, i, borrow) ==
    IF i > Len(a) THEN <<>>
    ELSE <<(Digit(a, i) - Digit(b, i) - borrow) % Limb>>
         \o SubFrom(a, b, i + 1, IF Digit(a, i) - Digit(b, i) - borrow < 0 THEN 1 ELSE 0)

SubNat(a, b) == Trim(SubFrom(a, b, 1, 0))

\* a * k for k < 2^13
RECURSIVE MulFrom(_, _, _, _)
MulFrom(a, k, i, carry) ==
    IF i > Len(a) THEN (IF carry = 0 THEN <<>> ELSE <<carry>>)
    ELSE <<(a[i] * k + carry) % Limb>> \o MulFrom(a, k, i + 1, (a[i] * k + carry) \div Limb)

MulNat(a, k) == Trim(MulFrom(a, k, 1, 0))

\* quotient and remainder of a by d, for d < 2^13
RECURSIVE DivFrom(_, _, _, _, _)
DivFrom(a, d, i, r, q) ==
    IF i = 0 THEN [q |-> Trim(q), r |-> r]
    ELSE DivFrom(a, d, i - 1, (r * Limb + a[i]) % d, <<(r * Limb + a[i]) \div d>> \o q)

DivNat(a, d) == DivFrom(a, d, Len(a), 0, <<>>)

\* a * 2^s
RECURSIVE ShlNat(_, _)
ShlNat(a, s) == IF s > 12 THEN ShlNat(MulNat(a, 2^12), s - 12) ELSE MulNat(a, 2^s)

\* a * b
RECURSIVE MulNatNat(_, _)
MulNatNat(a, b) ==
    IF b = <<>> THEN <<>>
    ELSE Let(DivNat(b, 2^12), LAMBDA d : AddNat(MulNat(a, d.r), ShlNat(MulNatNat(a, d.q), 12)))

\* -1, 0 or 1 as a is below, equal to or above b
CmpNat(a, b) ==
    IF Len(a) # Len(b) THEN (IF Len(a) < Len(b) THEN -1 ELSE 1)
    ELSE LET D == {i \in 1..Len(a) : a[i] # b[i]}
         IN IF D = {} THEN 0 ELSE IF a[MaxOf(D)] < b[MaxOf(D)] THEN -1 ELSE 1

\* the number of bits of a
BitLen(a) ==
    IF a = <<>> THEN 0
    ELSE 18 * (Len(a) - 1) + (CHOOSE k \in 1..18 : 2^(k - 1) <= a[Len(a)] /\ a[Len(a)] < 2^k)

\* A float is n * 2^e, n a natural number of at most 53 bits.
Zero == [n |-> <<>>, e |-> 0]
Float(i) == [n |-> NatOf(i), e |-> 0]

\* the float nearest to a * 2^e (ties to even); sticky tells that bits below
\* a were dropped already
RECURSIVE Round(_, _, _)
Round(a, e, sticky) ==
    Let(BitLen(a) - 53, LAMBDA s :
    IF a = <<>> THEN Zero
    ELSE IF s <= 0 THEN [n |-> a, e |-> e]
    ELSE IF s > 12
    THEN Let(DivNat(a, 2^12), LAMBDA d : Round(d.q, e + 12, sticky \/ d.r # 0))
    ELSE Let(DivNat(a, 2^s), LAMBDA d :
         IF d.r > 2^(s - 1) \/ (d.r = 2^(s - 1) /\ (sticky \/ d.q[1] % 2 = 1))
         THEN [n |-> AddNat(d.q, <<1>>), e |-> e + s]
         ELSE [n |-> d.q, e |-> e + s]))

\* the digits of x and y over their common exponent
Aligned(x, y) ==
    LET e == IF x.e <= y.e THEN x.e ELSE y.e
    IN [x |-> ShlNat(x.n, x.e - e), y |-> ShlNat(y.n, y.e - e), e |-> e]

\* x + y
float_add(x, y) == Let(Aligned(x, y), LAMBDA a : Round(AddNat(a.x, a.y), a.e, FALSE))

\* x - y for x >= y
float_sub(x, y) == Let(Aligned(x, y), LAMBDA a : Round(SubNat(a.x, a.y), a.e, FALSE))

\* x * y
float_mul(x, y) == Round(MulNatNat(x.n, y.n), x.e + y.e, FALSE)

\* x / y for y # 0 with digits below 2^12 (a sum of whole and half percentages)
float_div(x, y) ==
    Let(DivNat(ShlNat(x.n, 70), y.n[1]), LAMBDA d : Round(d.q, x.e - y.e - 70, d.r # 0))

\* x < y
float_lt(x, y) == Let(Aligned(x, y), LAMBDA a : CmpNat(a.x, a.y) < 0)

-----------------------------------------------------------------------------
(* DynamicPromptReplacer (shared_utils.py) *)

\* str.split(sep) on a one-token separator
RECURSIVE Split(_, _)
Split(s, sep) ==
    LET i == FirstOf(s, 1, {sep})
    IN IF i = 0 THEN <<s>> ELSE <<Slice(s, 1, i - 1)>> \o Split(Slice(s, i + 1, Len(s)), sep)

\* sep.join(parts)
RECURSIVE Join(_, _)
Join(parts, sep) ==
    IF parts = <<>> THEN <<>>
    ELSE IF Len(parts) = 1 THEN parts[1]
    ELSE parts[1] \o sep \o Join(Tail(parts), sep)

StripEach(parts) == [i \in 1..Len(parts) |-> Strip(parts[i])]

DigitVal == [d \in {"0", "1", "2", "3"} |-> CASE d = "0" -> 0 [] d = "1" -> 1 [] d = "2" -> 2 [] d = "3" -> 3]

\* int(s) succeeds
IsInt(s) == Len(Strip(s)) = 1 /\ Strip(s)[1] \in DOMAIN DigitVal
IntOf(s) == DigitVal[Strip(s)[1]]

Min2(a, b) == IF a <= b THEN a ELSE b
Max2(a, b) == IF a >= b THEN a ELSE b

\* parse_wildcard_range(range_str, num_variants); ok is FALSE when int() raises
\* ValueError outside the try block
parse_wildcard_range(range_str, num_variants) ==
    Let(Split(range_str, "-"), LAMBDA parts :
    IF Has(range_str, "-") /\ Len(parts) = 2
    THEN IF (parts[1] # <<>> /\ ~IsInt(parts[1])) \/ (parts[2] # <<>> /\ ~IsInt(parts[2]))
         THEN [ok |-> FALSE, low |-> 0, high |-> 0]
         ELSE Let(IF parts[1] # <<>> THEN IntOf(parts[1]) ELSE 1, LAMBDA start :
              Let(IF parts[2] # <<>> THEN IntOf(parts[2]) ELSE num_variants, LAMBDA end :
                  [ok |-> TRUE, low |-> Min2(start, end), high |-> Max2(start, end)]))
    ELSE IF IsInt(range_str)
         THEN [ok |-> TRUE, low |-> IntOf(range_str), high |-> IntOf(range_str)]
         ELSE [ok |-> TRUE, low |-> 1, high |-> 1])

RemoveAt(s, i) == SubSeq(s, 1, i - 1) \o SubSeq(s, i + 1, Len(s))

\* self.rng.sample(variants, k) of the dynamic replacer: k draws
RECURSIVE DynSample(_, _, _, _)
DynSample(pool, k, c, acc) ==
    IF k = 0 \/ pool = <<>> THEN [val |-> acc, c |-> c]
    ELSE LET i == DynDraw(c, Len(pool)) + 1
         IN DynSample(RemoveAt(pool, i), k - 1, DynAdvance(c), Append(acc, pool[i]))

\* the numbers a percentage is written with
PercentTokens == <<"0", "1", "2", "3", "25", "35", "50", "70", "100", "115", "150">>
PercentValues == <<0, 1, 2, 3, 25, 35, 50, 70, 100, 115, 150>>

\* float(s) succeeds
IsFloat(s) == Len(Strip(s)) = 1 /\ \E i \in 1..Len(PercentTokens) : PercentTokens[i] = Strip(s)[1]
FloatOf(s) == Float(PercentValues[CHOOSE i \in 1..Len(PercentTokens) : PercentTokens[i] = Strip(s)[1]])

\* the option of one part of a percentage block; pct is None where has_pct is
\* FALSE
percent_option(part0) ==
    Let(Strip(part0), LAMBDA part :
    Let(FirstOf(part, 1, {"%"}), LAMBDA k :
    IF k # 0 /\ IsFloat(Slice(part, 1, k - 1))
    THEN [pct |-> FloatOf(Slice(part, 1, k - 1)), text |-> Strip(Slice(part, k + 1, Len(part))),
          has_pct |-> TRUE]
    ELSE [pct |-> Zero, text |-> part, has_pct |-> FALSE]))

percent_options(content) ==
    Let(Split(content, "|"), LAMBDA parts : [i \in 1..Len(parts) |-> percent_option(parts[i])])

\* the sum of the pct of the first i options that have one, added in order
RECURSIVE total_explicit_pct(_, _)
total_explicit_pct(options, i) ==
    IF i = 0 THEN Zero
    ELSE IF options[i].has_pct THEN float_add(total_explicit_pct(options, i - 1), options[i].pct)
    ELSE total_explicit_pct(options, i - 1)

unassigned_count(options) == Cardinality({i \in 1..Len(options) : ~options[i].has_pct})

\* the pct of every option once the options without one got theirs
distributed(options) ==
    Let(total_explicit_pct(options, Len(options)), LAMBDA total :
    Let(IF ~float_lt(total, Float(100)) \/ unassigned_count(options) = 0 THEN Zero
        ELSE float_div(float_sub(Float(100), total), Float(unassigned_count(options))), LAMBDA share :
        [i \in 1..Len(options) |-> IF options[i].has_pct THEN options[i].pct ELSE share]))

\* sum(pcts[1..i])
RECURSIVE total_pct(_, _)
total_pct(pcts, i) == IF i = 0 THEN Zero ELSE float_add(total_pct(pcts, i - 1), pcts[i])

\* the pct of every option after the normalization of a total above 100
normalized(pcts) ==
    Let(total_pct(pcts, Len(pcts)), LAMBDA total :
    IF float_lt(Float(100), total)
    THEN Let(float_div(Float(100), total), LAMBDA scale :
             [i \in 1..Len(pcts) |-> float_mul(pcts[i], scale)])
    ELSE pcts)

\* the option the cumulative walk returns for a roll, 0 when it returns none
RECURSIVE walk(_, _, _, _)
walk(pcts, i, cumulative, roll) ==
    IF i > Len(pcts) THEN 0
    ELSE Let(float_add(cumulative, pcts[i]), LAMBDA next :
         IF float_lt(roll, next) THEN i ELSE walk(pcts, i + 1, next, roll))

\* the outputs of self.rng.random() the draws of a generator stand for:
\* 0.0, the largest one (1 - 2^-53), 0.5, 0.25 and 0.75
RandomValues ==
    <<Zero, [n |-> <<Limb - 1, Limb - 1, 2^17 - 1>>, e |-> -53],
      [n |-> <<1>>, e |-> -1], [n |-> <<1>>, e |-> -2], [n |-> <<3>>, e |-> -2]>>

\* self.rng.random() of the dynamic replacer
DynRandom(c) == RandomValues[DynDraw(c, Len(RandomValues)) + 1]

\* the percentage branch of replace_combinations, for options one of which
\* has a percentage
percent_choice(options, c) ==
    Let(distributed(options), LAMBDA pcts :
    Let(walk(normalized(pcts), 1, Zero, float_mul(DynRandom(c), Float(100))), LAMBDA i :
    IF i # 0 THEN [text |-> options[i].text, c |-> DynAdvance(c)]
    ELSE IF ~float_lt(total_pct(pcts, Len(pcts)), Float(100))
    THEN [text |-> options[Len(options)].text, c |-> DynAdvance(c)]
    ELSE [text |-> <<>>, c |-> DynAdvance(c)]))

\* replace_combinations(match), content being match.group(1)
replace_combinations(content0, c) ==
    Let(content0 # <<>> /\ content0[1] = "~", LAMBDA sequential :
    Let(IF sequential THEN Tail(content0) ELSE content0, LAMBDA content :
    Let(StripEach(Split(content, "|")), LAMBDA variants :
    IF sequential /\ ~Has(content, "$$")
    THEN [text |-> variants[(c.seed % Len(variants)) + 1], c |-> c]
    ELSE IF Has(content, "%") /\ ~Has(content, "$$")
            /\ \E i \in 1..Len(variants) : percent_option(variants[i]).has_pct
    THEN percent_choice(percent_options(content), c)
    ELSE IF Has(content, "$$")
    THEN Let(FirstOf(content, 1, {"$$"}), LAMBDA k :
         Let(Slice(content, 1, k - 1), LAMBDA range_str :
         Let(StripEach(Split(Slice(content, k + 1, Len(content)), "|")), LAMBDA rvariants :
         Let(parse_wildcard_range(range_str, Len(rvariants)), LAMBDA range :
         IF ~range.ok THEN [text |-> <<>>, c |-> Raise(c, "ValueError")]
         ELSE Let(range.low + DynDraw(c, range.high - range.low + 1), LAMBDA count :
              Let(DynAdvance(c), LAMBDA c1 :
              IF count <= 0 THEN [text |-> <<>>, c |-> c1]
              ELSE Let(DynSample(rvariants, Min2(count, Len(rvariants)), c1, <<>>), LAMBDA r :
                       [text |-> Join(r.val, <<",", " ">>), c |-> r.c])))))))
    ELSE [text |-> variants[DynDraw(c, Len(variants)) + 1], c |-> DynAdvance(c)])))

\* start of the leftmost match of \{([^{}]*)\} at or after from, 0 if none
NextCombination(s, from) ==
    LET S == {i \in from..Len(s) :
                /\ s[i] = "{"
                /\ FirstOf(s, i + 1, {"{", "}"}) # 0
                /\ s[FirstOf(s, i + 1, {"{", "}"})] = "}"}
    IN IF S = {} THEN 0 ELSE MinOf(S)

\* one pass of self.re_combinations.sub(self.replace_combinations, template)
RECURSIVE SubCombinations(_, _, _)
SubCombinations(s, from, c) ==
    Let(NextCombination(s, from), LAMBDA i :
    IF i = 0 \/ c.exc # "" THEN [text |-> Slice(s, from, Len(s)), c |-> c]
    ELSE Let(FirstOf(s, i + 1, {"}"}), LAMBDA j :
         Let(replace_combinations(Slice(s, i + 1, j - 1), c), LAMBDA r :
         Let(SubCombinations(s, j + 1, r.c), LAMBDA rest :
             [text |-> Slice(s, from, i - 1) \o r.text \o rest.text, c |-> rest.c]))))

\* DynamicPromptReplacer.replace(template)
RECURSIVE dynamic_replace(_, _)
dynamic_replace(template, c) ==
    IF template = <<>> \/ c.exc # "" THEN [text |-> template, c |-> c]
    ELSE Let(SubCombinations(template, 1, c), LAMBDA r :
             IF r.text = template \/ r.c.exc # "" THEN r ELSE dynamic_replace(r.text, r.c))

-----------------------------------------------------------------------------
(* Wildcard files and TagLoader (nodes.py) *)

\* Length of the chain of wildcard files c0 -> c1 -> ... that ends in a word
ChainLen == 12

ChainNames == {"c" \o ToString(k) : k \in 0..(ChainLen - 1)}
ChainIndex(name) == CHOOSE k \in 0..(ChainLen - 1) : name = "c" \o ToString(k)

\* The .txt wildcard files of the installation, by lower-cased name
\* (txt_lookup), each with the values read_file_lines returns for it.  Every
\* entry is the dict parse_wildcard_weight builds: the value, weight 1.0 and
\* no tags.  There are no .yaml and no .csv files, and no aliases.
FileNames == {"one", "two", "itself", "a", "b"} \cup ChainNames
read_file_lines(name) ==
    CASE name = "one" -> << <<"solo">> >>
      [] name = "two" -> << <<"aa">>, <<"bb">> >>
      [] name = "itself" -> << <<"__", "itself", "__">> >>
      [] name = "a" -> << <<"__", "b", "__">> >>
      [] name = "b" -> << <<"__", "a", "__">> >>
      [] OTHER -> IF ChainIndex(name) = ChainLen - 1 THEN << <<"end">> >>
                  ELSE << <<"__", "c" \o ToString(ChainIndex(name) + 1), "__">> >>

\* TagLoader.load_tags(requested_tag) for a tag other than ALL_KEY, the files
\* being unchanged during the call
load_tags(requested_tag) ==
    LET lower_tag == NameOf(LowerSeq(requested_tag))
    IN IF lower_tag \in FileNames THEN read_file_lines(lower_tag) ELSE <<>>

\* str(entry) of a parsed line
DictRepr(value) ==
    <<"{", "'value'", ":", " ", "'">> \o value
      \o <<"'", ",", " ", "'weight'", ":", " ", "1", ".", "0", ",", " ", "'tags'", ":", " ", "[", "]", "}">>

\* parse_tag(tag)
parse_tag(tag) == Strip(SelectSeq(tag, LAMBDA tok : tok \notin {"__", "<", ">"}))

-----------------------------------------------------------------------------
(* TagSelector (nodes.py) and TagSelectorBase (shared_utils.py) *)

Enabled(d, name) == LowerSeq(Strip(Get(d, name, <<>>))) \in Truthy

is_debug_enabled(c) == Enabled(c.S, "debug")
is_trace_enabled(c) == Enabled(c.S, "trace")
is_failfast_enabled(c) ==
    IF "fail_fast" \in DOMAIN c.S THEN Enabled(c.S, "fail_fast") ELSE Enabled(c.S, "failfast")

PutNew(d, k, v) == IF k \in DOMAIN d THEN d ELSE Put(d, k, v)

\* f"{self.seed}-{int(datetime.now().timestamp() * 1000)}"
RunId(c) == <<ToString(c.seed), "-", ToString(c.t)>>

init_debug_context(c) ==
    IF ~is_debug_enabled(c) THEN c
    ELSE [c EXCEPT !.S = PutNew(PutNew(PutNew(@, "debug_seed", <<ToString(c.seed)>>),
                                       "debug_run_id", RunId(c)),
                                "debug_summary", <<"1">>),
                   !.clock = @ \/ "debug_run_id" \notin DOMAIN c.S]

init_trace_context(c) ==
    IF ~is_trace_enabled(c) THEN c
    ELSE [c EXCEPT !.S = PutNew(PutNew(PutNew(@, "trace_seed", <<ToString(c.seed)>>),
                                       "trace_run_id", RunId(c)),
                                "trace_summary", <<"1">>),
                   !.clock = @ \/ "trace_run_id" \notin DOMAIN c.S]

\* the writes made after a pick: debug_last_* when debugging, set_trace_info
LastPick(c, type, source, pick) ==
    Let(IF is_debug_enabled(c)
        THEN Put(Put(Put(c.S, "debug_last_type", <<type>>), "debug_last_source", source),
                 "debug_last_pick", pick)
        ELSE c.S, LAMBDA d :
        [c EXCEPT !.S = IF is_trace_enabled(c)
                        THEN Put(Put(Put(d, "trace_last_type", <<type>>), "trace_last_source", source),
                                 "trace_last_pick", pick)
                        ELSE d])

\* process_scoped_negative(text)
process_scoped_negative(value, c) ==
    Let(FirstOf(value, 1, {"--neg:"}), LAMBDA k :
    IF k = 0 THEN [val |-> value, c |-> c]
    ELSE Let(Strip(Slice(value, k + 1, Len(value))), LAMBDA negative :
             [val |-> Strip(Slice(value, 1, k - 1)),
              c |-> IF negative # <<>> THEN [c EXCEPT !.negs = Append(@, negative)] ELSE c]))

\* value.split('#')[0].strip() when the value holds a '#'
CutHash(value) ==
    IF Has(value, "#") THEN Strip(Slice(value, 1, FirstOf(value, 1, {"#"}) - 1)) ELSE value

IsSeedToken(tok) == tok \in DOMAIN DigitVal \/ tok = "|"

\* re.match(r'#([0-9|]+)\$\$(.*)', parsed_tag)
seed_match(parsed_tag) ==
    LET k == FirstOf(parsed_tag, 1, {"$$"})
    IN /\ parsed_tag # <<>> /\ parsed_tag[1] = "#"
       /\ k > 2
       /\ \A i \in 2..(k - 1) : IsSeedToken(parsed_tag[i])
       /\ \A i \in (k + 1)..Len(parsed_tag) : parsed_tag[i] # "\n"

\* get_tag_choice(parsed_tag, tags) for the entries of a .txt file.  The
\* membership test "t not in self.used_values" hashes a dict and raises
\* TypeError; _weighted_choice of an empty list raises IndexError.
get_tag_choice(parsed_tag, tags, c) ==
    IF seed_match(parsed_tag)
    THEN LET c1 == SelAdvance(c)   \* rng.choice(seed_options)
         IN IF tags # <<>> THEN [val |-> <<>>, c |-> Raise(c1, "TypeError")]
            ELSE [val |-> <<>>, c |-> Raise(SelAdvance(c1), "IndexError")]
    ELSE IF Len(tags) = 1
    THEN Let(tags[1], LAMBDA selected_key :
         Let(process_scoped_negative(CutHash(selected_key),
                                     [c EXCEPT !.used = @ \cup {selected_key}]), LAMBDA r :
             [val |-> r.val, c |-> LastPick(r.c, "wildcard", parsed_tag, r.val)]))
    ELSE IF tags # <<>> THEN [val |-> <<>>, c |-> Raise(c, "TypeError")]
    ELSE [val |-> <<>>, c |-> Raise(SelAdvance(c), "IndexError")]

\* the entries process_yaml_entry indexes from content n of the wildcard
\* directory, in file order: the key is the lower-cased title, the tags are
\* lower-cased and stripped.  Content 0 holds no .yaml file.
EntriesOf(content) ==
    IF content = 0 THEN <<>>
    ELSE << [key |-> <<"red", " ", "cat">>, tags |-> << <<"cat">>, <<"warm">> >>,
             prompts |-> << <<"ruby">> >>],
            [key |-> <<"blue", " ", "dog">>, tags |-> << <<"dog">>, <<"cold">> >>,
             prompts |-> <<>>],
            [key |-> <<"grey", " ", "cat">>, tags |-> << <<"cat">>, <<"cold">> >>,
             prompts |-> << <<"ash">>, <<"smoke">> >>] >>

\* self.tag_loader.yaml_entries of the loader the selector was constructed with
yaml_entries == IF loader = <<>> THEN <<>> ELSE EntriesOf(loader[1].yaml_entries.content)

\* lines 924-931: a group naming a set variable stands for the variable's value
resolved_groups(groups, S) ==
    [i \in 1..Len(groups) |->
        Let(Strip(groups[i]), LAMBDA clean_g :
            IF clean_g # <<>> /\ clean_g[1] = "$" /\ NameOf(Tail(clean_g)) \in DOMAIN S
            THEN S[NameOf(Tail(clean_g))] ELSE clean_g)]

\* x.startswith('--')
StartsNeg(x) == x # <<>> /\ x[1] = "--"
\* line 933
neg_groups(resolved) ==
    {Strip(LowerSeq(SelectSeq(resolved[i], LAMBDA tok : tok # "--"))) :
        i \in {j \in 1..Len(resolved) : StartsNeg(resolved[j])}}
\* line 934
pos_groups(resolved) ==
    {LowerSeq(Strip(resolved[i])) :
        i \in {j \in 1..Len(resolved) : ~StartsNeg(resolved[j]) /\ ~Has(resolved[j], "|")}}
\* line 935
any_groups(resolved) ==
    {{Strip(y) : y \in Range(Split(LowerSeq(resolved[i]), "|"))} :
        i \in {j \in 1..Len(resolved) : Has(resolved[j], "|")}}

\* lines 945-951 without the test of the negated groups
is_candidate_ignoring_neg(tag_set, resolved) ==
    /\ pos_groups(resolved) \subseteq tag_set
    /\ \A group \in any_groups(resolved) : group \cap tag_set # {}
\* lines 945-951: the entry with these tags passes the filters
is_candidate(tag_set, resolved) ==
    /\ pos_groups(resolved) \subseteq tag_set
    /\ neg_groups(resolved) \cap tag_set = {}
    /\ \A group \in any_groups(resolved) : group \cap tag_set # {}

\* _set_yaml_vars(title, entry_details) and lines 970-976
set_yaml_vars(c, entry_details, source) ==
    Let(Put(c.S, "yaml_title", entry_details.key), LAMBDA titled :
    Let(IF entry_details.tags # <<>>
        THEN Put(titled, "yaml_tags", Join(entry_details.tags, <<",", " ">>)) ELSE titled, LAMBDA tagged :
    Let(IF is_debug_enabled(c) THEN Put(tagged, "debug_yaml_entry", entry_details.key) ELSE tagged, LAMBDA d :
        [c EXCEPT !.S = IF is_trace_enabled(c)
                        THEN Put(Put(Put(d, "trace_yaml_entry", entry_details.key),
                                         "trace_last_type", <<"yaml">>),
                                 "trace_last_source", source)
                        ELSE d])))

\* get_tag_group_choice(parsed_tag, groups, tags): tags is a dict only when it
\* is yaml_entries, loaded for ALL_KEY, which is no seeded tag; the prompts of
\* the entries are no wildcards, so that resolve_wildcard_recursively returns
\* them as they are
get_tag_group_choice(parsed_tag, groups, is_dict, c) ==
    IF ~is_dict THEN [val |-> <<>>, c |-> c]
    ELSE Let(resolved_groups(groups, c.S), LAMBDA resolved :
         Let(SelectSeq(yaml_entries, LAMBDA e : is_candidate(Range(e.tags), resolved)), LAMBDA candidates :
         IF candidates = <<>>
         THEN [val |-> <<"[", "NO_MATCHES", ":", " ">> \o Join(groups, <<" ">>) \o <<"]">>, c |-> c]
         ELSE Let(candidates[SelDraw(c, Len(candidates)) + 1], LAMBDA entry_details :
              Let(set_yaml_vars(SelAdvance(c), entry_details, parsed_tag), LAMBDA c1 :
              IF entry_details.prompts # <<>>
              THEN Let(entry_details.prompts[SelDraw(c1, Len(entry_details.prompts)) + 1],
                       LAMBDA chosen_prompt :
                       [val |-> chosen_prompt,
                        c |-> LastPick(SelAdvance(c1), "yaml", parsed_tag, chosen_prompt)])
              ELSE [val |-> entry_details.key,
                    c |-> LastPick(c1, "yaml", parsed_tag, entry_details.key)]))))

\* process_wildcard_range(tag, lines, rng) of nodes.py for a tag holding "$$"
\* and not starting with '#': joining the sampled dicts raises TypeError, the
\* handler picks one entry with rng.choice and returns the dict itself
process_wildcard_range(tag, lines, c) ==
    IF lines = <<>> THEN [val |-> <<>>, c |-> c]
    ELSE Let(FirstOf(tag, 1, {"$$"}), LAMBDA k :
         Let(parse_wildcard_range(Slice(tag, 1, k - 1), Len(lines)), LAMBDA range :
         IF ~range.ok
         THEN [val |-> DictRepr(lines[SelDraw(c, Len(lines)) + 1]), c |-> SelAdvance(c)]
         ELSE Let(range.low + SelDraw(c, range.high - range.low + 1), LAMBDA num_items :
              Let(SelAdvance(c), LAMBDA c1 :
              Let(Min2(num_items, Len(lines)), LAMBDA taken :
              Let([c1 EXCEPT !.spos = @ + (IF taken > 0 THEN taken ELSE 0)], LAMBDA c2 :
              IF num_items = 0 THEN [val |-> <<>>, c |-> c1]
              ELSE IF num_items < 0 THEN [val |-> DictRepr(lines[SelDraw(c1, Len(lines)) + 1]),
                                          c |-> SelAdvance(c1)]
              ELSE [val |-> DictRepr(lines[SelDraw(c2, Len(lines)) + 1]), c |-> SelAdvance(c2)]))))))

max_selections == 500

ALL_KEY == "all_files_index"

HasDigit(s) == \E i \in 1..Len(s) : s[i] \in DOMAIN DigitVal

NotFound(parsed_tag, c) ==
    IF is_failfast_enabled(c)
    THEN <<"<", "<", "ERROR_WILDCARD_NOT_FOUND", ":">> \o parsed_tag \o <<">", ">">>
    ELSE <<"[", "WILDCARD_NOT_FOUND", ":", " ">> \o parsed_tag \o <<"]">>

\* TagSelector.select(tag, groups)
select(tag, groups, c0) ==
    IF Get(c0.counts, tag, 0) > max_selections
    THEN [val |-> <<"LOOP_ERROR", "(">> \o tag \o <<")">>,
          c |-> [c0 EXCEPT !.counts = Put(@, tag, Get(@, tag, 0))]]
    ELSE
    Let(init_trace_context(init_debug_context(
            [c0 EXCEPT !.counts = Put(@, tag, Get(@, tag, 0) + 1)])), LAMBDA c :
    Let(parse_tag(tag), LAMBDA parsed0 :
    Let(parsed0 # <<>> /\ parsed0[1] = "~", LAMBDA sequential :
    Let(IF sequential THEN Tail(parsed0) ELSE parsed0, LAMBDA parsed_tag :
    Let(FirstOf(parsed_tag, 1, {"$$"}), LAMBDA k :
    Let(parsed_tag # <<>> /\ parsed_tag[1] = "#", LAMBDA hash :
    IF k # 0 /\ ~hash /\ (HasDigit(Slice(parsed_tag, 1, k - 1)) \/ Has(Slice(parsed_tag, 1, k - 1), "-"))
    THEN process_wildcard_range(parsed_tag, load_tags(Slice(parsed_tag, k + 1, Len(parsed_tag))), c)
    ELSE IF hash /\ k = 0
    THEN get_tag_group_choice(parsed_tag, <<Tail(parsed_tag)>>, TRUE, c)
    ELSE IF hash
    THEN get_tag_choice(parsed_tag, load_tags(Split(parsed_tag, "$$")[2]), c)
    ELSE Let(load_tags(parsed_tag), LAMBDA tags :
         IF sequential /\ tags # <<>> THEN [val |-> <<>>, c |-> Raise(c, "AttributeError")]
         ELSE IF groups # <<>> THEN get_tag_group_choice(parsed_tag, groups, parsed_tag = <<ALL_KEY>>, c)
         ELSE IF tags # <<>> THEN get_tag_choice(parsed_tag, tags, c)
         ELSE [val |-> NotFound(parsed_tag, c), c |-> c])))))))

-----------------------------------------------------------------------------
(* TagReplacer (nodes.py) and TagReplacerBase (shared_utils.py) *)

\* self.opts_regexp.findall(opts): the texts between "[" and the next "]"
RECURSIVE opts_findall(_, _)
opts_findall(s, from) ==
    Let({i \in from..Len(s) :
            /\ s[i] = "["
            /\ FirstOf(s, i + 1, {"]"}) # 0
            /\ ~\E m \in (i + 1)..(FirstOf(s, i + 1, {"]"}) - 1) : s[m] = "\n"}, LAMBDA S :
    IF S = {} THEN <<>>
    ELSE Let(MinOf(S), LAMBDA i :
         Let(FirstOf(s, i + 1, {"]"}), LAMBDA j :
             <<Slice(s, i + 1, j - 1)>> \o opts_findall(s, j))))

\* get_prompt_file_content(filename)
get_prompt_file_content(filename) ==
    LET key == NameOf(LowerSeq(Strip(filename)))
    IN IF key \in FileNames THEN Join(read_file_lines(key), <<"\n">>)
       ELSE <<"[", "PROMPT_FILE_NOT_FOUND", ":", " ">> \o filename \o <<"]">>

\* replace_wildcard(matches), match being matches.group(2)
replace_wildcard(match, c) ==
    IF match = <<>> THEN [val |-> <<>>, c |-> c]
    ELSE IF match[1] = "@" /\ ~Has(match, ":")
    THEN [val |-> get_prompt_file_content(Tail(match)), c |-> c]
    ELSE Let(FirstOf(match, 1, {":"}), LAMBDA k :
         Let(IF k # 0 THEN Slice(match, 1, k - 1) ELSE match, LAMBDA scope :
         Let(opts_findall(IF k # 0 THEN Slice(match, k + 1, Len(match)) ELSE match, 1), LAMBDA global_opts :
         Let(select(IF k = 0 /\ global_opts # <<>> THEN <<ALL_KEY>> ELSE scope, global_opts, c),
             LAMBDA selected :
             [val |-> CutHash(selected.val), c |-> selected.c]))))

\* start of the leftmost match of (__|<)(.*?)(__|>) at or after from, 0 if none
NextWildcard(s, from) ==
    LET S == {i \in from..Len(s) :
                /\ s[i] \in {"__", "<"}
                /\ FirstOf(s, i + 1, {"__", ">"}) # 0
                /\ ~\E m \in (i + 1)..(FirstOf(s, i + 1, {"__", ">"}) - 1) : s[m] = "\n"}
    IN IF S = {} THEN 0 ELSE MinOf(S)

\* self.wildcard_regex.sub(self.replace_wildcard, prompt)
RECURSIVE SubWildcards(_, _, _)
SubWildcards(s, from, c) ==
    Let(NextWildcard(s, from), LAMBDA i :
    IF i = 0 \/ c.exc # "" THEN [text |-> Slice(s, from, Len(s)), c |-> c]
    ELSE Let(FirstOf(s, i + 1, {"__", ">"}), LAMBDA j :
         Let(replace_wildcard(Slice(s, i + 1, j - 1), c), LAMBDA r :
         Let(SubWildcards(s, j + 1, r.c), LAMBDA rest :
             [text |-> Slice(s, from, i - 1) \o r.val \o rest.text, c |-> rest.c]))))

\* _split_forbid(content): split at the first "|" that stands alone
_split_forbid(content) ==
    LET S == {i \in 1..Len(content) :
                /\ content[i] = "|"
                /\ (i = 1 \/ content[i - 1] \in WS)
                /\ (i = Len(content) \/ content[i + 1] \in WS)}
    IN IF S = {} THEN [left |-> <<>>, right |-> <<>>]
       ELSE [left |-> Strip(Slice(content, 1, MinOf(S) - 1)),
             right |-> Strip(Slice(content, MinOf(S) + 1, Len(content)))]

\* _assert(match): the condition is evaluated on the selector's variables
_assert(content0, context, c) ==
    Let(Strip(content0), LAMBDA content :
    Let(_split_forbid(content), LAMBDA parts :
        IF content = <<>> \/ parts.left = <<>> THEN <<>>
        ELSE IF evaluate(parts.left, c.S, context) THEN <<>>
        ELSE <<"<", "<", "ERROR_ASSERT", ":">>
               \o (IF parts.right = <<>> THEN parts.left ELSE parts.right) \o <<">", ">">>))

\* _require(match)
_require(content0, c) ==
    Let(Strip(content0), LAMBDA content :
    Let(FirstOf(content, 1, {"|"}), LAMBDA k :
    Let(IF k # 0 THEN Strip(Slice(content, 1, k - 1)) ELSE content, LAMBDA var_part :
    Let(IF k # 0 THEN Strip(Slice(content, k + 1, Len(content))) ELSE <<>>, LAMBDA label :
    Let(IF var_part # <<>> /\ var_part[1] = "$" THEN Tail(var_part) ELSE var_part, LAMBDA var_name :
        IF content = <<>> \/ var_name = <<>> THEN <<>>
        ELSE IF Strip(Get(c.S, NameOf(var_name), <<>>)) = <<>>
        THEN <<"<", "<", "ERROR_MISSING", ":">> \o (IF label # <<>> THEN label ELSE var_name) \o <<">", ">">>
        ELSE <<>>)))))

\* re.sub(r'\s+', ' ', prompt)
collapse_spaces(s) ==
    LET idx == SelectSeq([i \in 1..Len(s) |-> i], LAMBDA i : ~(s[i] \in WS /\ i > 1 /\ s[i - 1] \in WS))
    IN [k \in 1..Len(idx) |-> IF s[idx[k]] \in WS THEN " " ELSE s[idx[k]]]

\* index of the first token at or after k that is no comma
SkipCommas(s, k) ==
    LET S == {i \in k..Len(s) : s[i] # ","}
    IN IF S = {} THEN Len(s) + 1 ELSE MinOf(S)

\* re.sub(r',\s*,+', ',', content)
RECURSIVE collapse_empty_commas(_, _)
collapse_empty_commas(s, from) ==
    LET S == {i \in from..Len(s) : s[i] = "," /\ SkipSpace(s, i + 1) <= Len(s) /\ s[SkipSpace(s, i + 1)] = ","}
    IN IF S = {} THEN Slice(s, from, Len(s))
       ELSE Slice(s, from, MinOf(S)) \o collapse_empty_commas(s, SkipCommas(s, SkipSpace(s, MinOf(S) + 1)))

\* re.sub(r',\s+', ', ', content)
RECURSIVE space_after_commas(_, _)
space_after_commas(s, from) ==
    LET S == {i \in from..(Len(s) - 1) : s[i] = "," /\ s[i + 1] \in WS}
    IN IF S = {} THEN Slice(s, from, Len(s))
       ELSE Slice(s, from, MinOf(S)) \o <<" ">> \o space_after_commas(s, SkipSpace(s, MinOf(S) + 1))

\* content.strip(', ')
strip_commas_and_spaces(s) ==
    LET S == {i \in 1..Len(s) : s[i] \notin {",", " "}}
    IN IF S = {} THEN <<>> ELSE SubSeq(s, MinOf(S), MaxOf(S))

\* _clean(match), group 1 being content
_clean(content) ==
    strip_commas_and_spaces(
        space_after_commas(
            ReplaceAll(collapse_empty_commas(collapse_spaces(content), 1), <<" ", ",">>, <<",">>), 1))

\* start of the leftmost match of \[name:(...)\] at or after from, 0 if none;
\* the content may hold bracket pairs, which may not nest
NextFunction(s, name, from) ==
    Let({i \in from..(Len(s) - 2) :
            /\ s[i] = "[" /\ Lower(s[i + 1]) = name /\ s[i + 2] = ":"
            /\ find_matching_bracket(s, i) # 0
            /\ \A m \in (i + 3)..(find_matching_bracket(s, i) - 1) :
                  s[m] = "[" => CountIn(s, "[", i + 3, m - 1) = CountIn(s, "]", i + 3, m - 1)}, LAMBDA S :
        IF S = {} THEN 0 ELSE MinOf(S))

\* regex.sub(handler, text) for one of the function tags
RECURSIVE SubFunction(_, _, _, _, _)
SubFunction(s, name, from, context, c) ==
    Let(NextFunction(s, name, from), LAMBDA i :
    IF i = 0 THEN Slice(s, from, Len(s))
    ELSE Let(find_matching_bracket(s, i), LAMBDA j :
         Let(Slice(s, i + 3, j - 1), LAMBDA content :
             Slice(s, from, i - 1)
               \o (CASE name = "clean" -> _clean(content)
                     [] name = "require" -> _require(content, c)
                     [] OTHER -> _assert(content, context, c))
               \o SubFunction(s, name, j + 1, context, c))))

\* replace_functions(text), for texts holding [clean:], [require:] and
\* [assert:] tags
replace_functions(text0, c) ==
    Let(SubFunction(text0, "clean", 1, text0, c), LAMBDA cleaned :
    Let(SubFunction(cleaned, "require", 1, cleaned, c), LAMBDA required :
        SubFunction(required, "assert", 1, required, c)))

ESCAPED_WILDCARD == <<"__", "_ESCAPED_WILDCARD", "__", "_">>
ESCAPED_ANGLE == <<"__", "_ESCAPED_ANGLE", "__", "_">>

max_iterations == 10

\* the while loop with a cycle check that gives up the text of a detected cycle
RECURSIVE ReplaceLoopDroppingCycles(_, _, _, _, _)
ReplaceLoopDroppingCycles(p, prompt0, count, history, c) ==
    IF \E h \in 1..Len(history) : history[h] = p THEN [text |-> <<>>, c |-> c, count |-> count]
    ELSE IF p # prompt0 /\ count < max_iterations /\ c.exc = ""
    THEN Let(SubWildcards(p, 1, c), LAMBDA r :
             ReplaceLoopDroppingCycles(r.text, p, count + 1, Append(history, prompt0), r.c))
    ELSE [text |-> p, c |-> c, count |-> count]

\* the while loop of TagReplacer.replace
RECURSIVE ReplaceLoop(_, _, _, _, _)
ReplaceLoop(p, prompt0, count, history, c) ==
    IF p # prompt0 /\ count < max_iterations /\ c.exc = ""
       /\ ~\E h \in 1..Len(history) : history[h] = p
    THEN Let(SubWildcards(p, 1, c), LAMBDA r :
             ReplaceLoop(r.text, p, count + 1, Append(history, prompt0), r.c))
    ELSE [text |-> p, c |-> c, count |-> count]

\* TagReplacer.replace(prompt)
tag_replace(prompt0, c) ==
    Let(ReplaceAll(ReplaceAll(prompt0, <<"\\", "__">>, ESCAPED_WILDCARD),
                   <<"\\", "<">>, ESCAPED_ANGLE), LAMBDA escaped :
    Let(SubWildcards(escaped, 1, c), LAMBDA first :
    Let(ReplaceLoop(first.text, escaped, 0, <<>>, first.c), LAMBDA r :
    Let(replace_functions(r.text, r.c), LAMBDA done :
        [text |-> ReplaceAll(ReplaceAll(done, ESCAPED_WILDCARD, <<"__">>), ESCAPED_ANGLE, <<"<">>),
         c |-> r.c, count |-> r.count]))))

-----------------------------------------------------------------------------
(* VariableReplacer (shared_utils.py) *)

\* word tokens that are not made of letters, digits and underscores only
OddWords == {"'value'", "'weight'", "'tags'", "--neg:"}
                \cup {"%%UMI_IF_BLOCK_" \o ToString(n) \o "%%" : n \in 0..9}
\* [a-zA-Z0-9_]+
IsName(tok) == IsWord(tok) /\ tok \notin OddWords

NoAssignment == [ok |-> FALSE, var_name |-> "", raw_value |-> <<>>, end_idx |-> 0]

\* the value of an assignment that starts at value_start: the index after it
\* the index after the bracket that closes the one at k, k + 1 when none does
Closing(s, k, open_char, close_char) ==
    Let(_find_matching(s, k, open_char, close_char), LAMBDA j : IF j = 0 THEN k + 1 ELSE j + 1)
\* the index after the first token of T after k, the end of s when there is none
AfterNext(s, k, T) == Let(FirstOf(s, k + 1, T), LAMBDA j : IF j = 0 THEN Len(s) + 1 ELSE j + 1)
\* the index of the first ";" or newline at or after k, the end of s when there is none
LineEnd(s, k) == Let(FirstOf(s, k, {";", "\n"}), LAMBDA j : IF j = 0 THEN Len(s) + 1 ELSE j)

ValueEnd(s, k) ==
    CASE s[k] = "{" -> Closing(s, k, "{", "}")
      [] s[k] = "[" -> Closing(s, k, "[", "]")
      [] s[k] = "'" -> Let({i \in (k + 1)..Len(s) : s[i] = "'" /\ s[i - 1] # "\\"}, LAMBDA quote :
                           IF quote = {} THEN Len(s) + 1 ELSE MinOf(quote) + 1)
      [] s[k] = "__" -> AfterNext(s, k, {"__"})
      [] s[k] = "<" -> AfterNext(s, k, {">"})
      [] OTHER -> LineEnd(s, k)

\* _parse_assignment(text_value, idx), text_value[idx] being "$".  In "$x==y"
\* the scanner takes the first "=" as the assignment and the second as the
\* first character of the value.
_parse_assignment(s, idx) ==
    IF idx + 1 > Len(s) \/ ~IsName(s[idx + 1]) THEN NoAssignment
    ELSE Let(SkipSpace(s, idx + 2), LAMBDA k :
         IF k > Len(s) \/ s[k] \notin {"=", "=="} THEN NoAssignment
         ELSE IF s[k] = "=="
         THEN Let(LineEnd(s, k + 1), LAMBDA e :
                  [ok |-> TRUE, var_name |-> s[idx + 1],
                   raw_value |-> Strip(<<"=">> \o Slice(s, k + 1, e - 1)),
                   end_idx |-> IF e <= Len(s) /\ s[e] = ";" THEN e + 1 ELSE e])
         ELSE Let(SkipSpace(s, k + 1), LAMBDA value_start :
              IF value_start > Len(s) THEN NoAssignment
              ELSE Let(ValueEnd(s, value_start), LAMBDA value_end :
                       [ok |-> TRUE, var_name |-> s[idx + 1],
                        raw_value |-> Strip(Slice(s, value_start, value_end - 1)),
                        end_idx |-> IF value_end <= Len(s) /\ s[value_end] = ";"
                                    THEN value_end + 1 ELSE value_end])))

\* _infer_source(raw_value)
_infer_source(raw) ==
    IF raw # <<>> /\ raw[1] \in {"{", "["} /\ Has(raw, "|") THEN "choice"
    ELSE IF FindSeq(raw, <<"__", "@">>, 1) # 0 THEN "prompt_file"
    ELSE IF FindSeq(raw, <<"__", "[">>, 1) # 0 \/ FindSeq(raw, <<"<", "[">>, 1) # 0 THEN "yaml"
    ELSE IF Has(raw, "__") THEN "wildcard"
    ELSE "literal"

max_resolve_rounds == 10

\* an assignment that stores the text as written, leaving it to be resolved
\* where the variable is read
StoreUnresolved(value, round, c) == [text |-> value, c |-> c]

\* the for loop of store_variables that resolves the value of an assignment
RECURSIVE ResolveValue(_, _, _)
ResolveValue(value, round, c) ==
    IF round = max_resolve_rounds \/ c.exc # "" THEN [text |-> value, c |-> c]
    ELSE Let(tag_replace(value, c), LAMBDA t1 :
         Let(dynamic_replace(t1.text, t1.c), LAMBDA d1 :
             IF d1.text = value \/ d1.c.exc # "" THEN d1
             ELSE ResolveValue(d1.text, round + 1, d1.c)))

\* the scan of store_variables over the masked text
RECURSIVE StoreScan(_, _, _)
StoreScan(s, from, c) ==
    Let(FirstOf(s, from, {"$"}), LAMBDA i :
    IF i = 0 \/ c.exc # "" THEN [text |-> Slice(s, from, Len(s)), c |-> c]
    ELSE Let(_parse_assignment(s, i), LAMBDA parsed :
         IF ~parsed.ok
         THEN Let(StoreScan(s, i + 1, c), LAMBDA rest :
                  [text |-> Slice(s, from, i) \o rest.text, c |-> rest.c])
         ELSE Let(ResolveValue(parsed.raw_value, 0, c), LAMBDA r :
              Let([r.c EXCEPT !.V =
                     Put(Put(Put(@, parsed.var_name, r.text),
                             "trace_last_var", <<parsed.var_name>>),
                         "trace_last_var_source", <<_infer_source(parsed.raw_value)>>)], LAMBDA stored :
              Let(StoreScan(s, parsed.end_idx, stored), LAMBDA rest :
                  [text |-> Slice(s, from, i - 1) \o rest.text, c |-> rest.c])))))

\* VariableReplacer.store_variables(text, tag_replacer, dynamic_replacer)
store_variables(s, c) ==
    Let(mask_conditionals(s, <<>>), LAMBDA masked :
    Let(StoreScan(masked.text, 1, c), LAMBDA r :
        [text |-> unmask_conditionals(r.text, masked.blocks, 1), c |-> r.c]))

\* re.sub(r'\$' + name + r'(?!\w)', value, text)
SubVar(s, name, value) == ReplaceAll(s, <<"$", name>>, value)

\* the names of a dict in one fixed order
RECURSIVE Keys(_)
Keys(S) == IF S = {} THEN <<>> ELSE LET k == CHOOSE x \in S : TRUE IN <<k>> \o Keys(S \ {k})

\* one run of the for loop over the other variables: the value, and whether
\* a reference was found
RECURSIVE SubOthers(_, _, _, _, _)
SubOthers(value, names, var_name, V, changed) ==
    IF names = <<>> THEN [value |-> value, changed |-> changed]
    ELSE IF names[1] # var_name /\ FindSeq(value, <<"$", names[1]>>, 1) # 0
    THEN SubOthers(SubVar(value, names[1], V[names[1]]), Tail(names), var_name, V, TRUE)
    ELSE SubOthers(value, Tail(names), var_name, V, changed)

max_depth == 10

\* the while loop of replace_variables that resolves one variable
RECURSIVE ResolveVar(_, _, _, _)
ResolveVar(value, var_name, V, depth) ==
    IF ~Has(value, "$") \/ depth >= max_depth THEN value
    ELSE Let(SubOthers(value, Keys(DOMAIN V), var_name, V, FALSE), LAMBDA r :
             IF ~r.changed THEN r.value ELSE ResolveVar(r.value, var_name, V, depth + 1))

\* resolved_vars merged into the variables: self.variables.update(resolved_vars)
ResolvedVars(V) == [n \in DOMAIN V |-> ResolveVar(V[n], n, V, 0)]

UpperTok(tok) ==
    CASE tok = "a" -> "A" [] tok = "b" -> "B" [] tok = "c" -> "C"
      [] tok = "x" -> "X" [] tok = "y" -> "Y"
      [] tok = "yes" -> "YES" [] tok = "no" -> "NO"
      [] OTHER -> tok

\* the methods of a use: the index after the last ".method"
RECURSIVE MethodsEnd(_, _)
MethodsEnd(s, k) ==
    IF k + 1 <= Len(s) /\ s[k] = "." /\ IsName(s[k + 1]) THEN MethodsEnd(s, k + 2) ELSE k

RECURSIVE ApplyMethods(_, _, _, _)
ApplyMethods(value, s, k, end) ==
    IF k >= end THEN value
    ELSE ApplyMethods(CASE s[k + 1] = "upper" -> [i \in 1..Len(value) |-> UpperTok(value[i])]
                        [] s[k + 1] = "lower" -> LowerSeq(value)
                        [] OTHER -> value,
                      s, k + 2, end)

\* self.use_regex.sub(_replace_use, result)
RECURSIVE SubUses(_, _, _)
SubUses(s, from, V) ==
    Let({i \in from..(Len(s) - 1) : s[i] = "$" /\ IsName(s[i + 1])}, LAMBDA S :
    IF S = {} THEN Slice(s, from, Len(s))
    ELSE Let(MinOf(S), LAMBDA i :
         Let(MethodsEnd(s, i + 2), LAMBDA end :
             (IF s[i + 1] \notin DOMAIN V THEN Slice(s, from, end - 1)
              ELSE Slice(s, from, i - 1) \o ApplyMethods(V[s[i + 1]], s, i + 2, end))
               \o SubUses(s, end, V))))

Quotes == {"'", "\""}

\* the scan of _split_fallbacks and of _split_args (which counts the
\* parentheses): value cut at the separators outside quotes and parentheses
RECURSIVE SplitOutside(_, _, _, _, _)
SplitOutside(value, sep, parens, quote_char, depth) ==
    IF value = <<>> THEN << <<>> >>
    ELSE IF quote_char = "" /\ value[1] = sep /\ depth = 0
    THEN << <<>> >> \o SplitOutside(Tail(value), sep, parens, "", depth)
    ELSE Let(SplitOutside(Tail(value), sep, parens,
                          IF quote_char # "" THEN (IF value[1] = quote_char THEN "" ELSE quote_char)
                          ELSE IF value[1] \in Quotes THEN value[1] ELSE "",
                          IF ~parens \/ quote_char # "" THEN depth
                          ELSE IF value[1] = "(" THEN depth + 1
                          ELSE IF value[1] = ")" THEN Max2(0, depth - 1)
                          ELSE depth), LAMBDA rest :
             << <<value[1]>> \o rest[1] >> \o Tail(rest))

_split_fallbacks(value) == StripEach(SplitOutside(value, "|", FALSE, "", 0))

\* the last part is kept only when it is not blank
_split_args(value) ==
    Let(StripEach(SplitOutside(value, ",", TRUE, "", 0)), LAMBDA parts :
        IF parts[Len(parts)] = <<>> THEN SubSeq(parts, 1, Len(parts) - 1) ELSE parts)

_normalize_literal(val) ==
    Let(Strip(val), LAMBDA v :
        IF Len(v) >= 2 /\ v[1] = v[Len(v)] /\ v[1] \in Quotes THEN SubSeq(v, 2, Len(v) - 1) ELSE v)

_get_value_or_literal(token, V) ==
    Let(Strip(token), LAMBDA t :
        IF t = <<>> THEN <<>>
        ELSE IF t[1] = "$" THEN Get(V, NameOf(Tail(t)), <<>>)
        ELSE _normalize_literal(t))

\* the value of the first of the tokens that is not blank, "" if there is none
FirstValue(tokens, V) ==
    Let({i \in 1..Len(tokens) : Strip(_get_value_or_literal(tokens[i], V)) # <<>>}, LAMBDA S :
        IF S = {} THEN <<>> ELSE _get_value_or_literal(tokens[MinOf(S)], V))

\* _replace_default that takes the fallbacks although the variable is set
_replace_default_ignoring_value(var_name, fallback_raw, V) ==
    FirstValue(_split_fallbacks(fallback_raw), V)
\* _replace_default(match), group 1 being var_name and group 2 fallback_raw
_replace_default(var_name, fallback_raw, V) ==
    IF var_name \notin DOMAIN V \/ Strip(V[var_name]) = <<>>
    THEN FirstValue(_split_fallbacks(fallback_raw), V)
    ELSE V[var_name]

\* _replace_coalesce(match), group 1 being content
_replace_coalesce(content, V) == FirstValue(_split_args(content), V)

\* self.default_regex.sub(_replace_default, text): ${name|fallbacks}
RECURSIVE SubDefaults(_, _, _)
SubDefaults(s, from, V) ==
    Let({i \in from..(Len(s) - 4) :
            /\ s[i] = "$" /\ s[i + 1] = "{" /\ IsName(s[i + 2]) /\ s[i + 3] = "|"
            /\ FirstOf(s, i + 4, {"}"}) # 0}, LAMBDA S :
    IF S = {} THEN Slice(s, from, Len(s))
    ELSE Let(MinOf(S), LAMBDA i :
         Let(FirstOf(s, i + 4, {"}"}), LAMBDA j :
             Slice(s, from, i - 1) \o _replace_default(s[i + 2], Strip(Slice(s, i + 4, j - 1)), V)
                 \o SubDefaults(s, j + 1, V))))

\* self.coalesce_regex.sub(_replace_coalesce, result): coalesce(arguments),
\* in either case, with at least one character before the first ")"
RECURSIVE SubCoalesce(_, _, _)
SubCoalesce(s, from, V) ==
    Let({i \in from..(Len(s) - 3) :
            /\ s[i] \in {"coalesce", "COALESCE"} /\ s[i + 1] = "(" /\ s[i + 2] # ")"
            /\ FirstOf(s, i + 3, {")"}) # 0}, LAMBDA S :
    IF S = {} THEN Slice(s, from, Len(s))
    ELSE Let(MinOf(S), LAMBDA i :
         Let(FirstOf(s, i + 3, {")"}), LAMBDA j :
             Slice(s, from, i - 1) \o _replace_coalesce(Slice(s, i + 2, j - 1), V)
                 \o SubCoalesce(s, j + 1, V))))

\* VariableReplacer.replace_variables(text): the text returned.  The dict
\* self.variables named before the call ends up holding ResolvedVars;
\* self.variables is rebound to a copy with the values of before the call.
replace_variables(s, V) ==
    Let(ResolvedVars(V), LAMBDA resolved :
        SubUses(SubCoalesce(SubDefaults(s, 1, resolved), 1, resolved), 1, resolved))

-----------------------------------------------------------------------------
(* Post-processing of UmiAIWildcardNode.process (nodes.py) *)

PROTECT == "___UMI_HASH_PROTECT___"

\* the body of the for loop over protected_text.splitlines()
clean_line(line) ==
    Let(IF Has(line, "//") THEN Slice(line, 1, FirstOf(line, 1, {"//"}) - 1) ELSE line, LAMBDA a :
    Let(FindSeq(a, <<" ", "#">>, 1), LAMBDA k :
        Strip(IF Has(a, "#") /\ Strip(a)[1] # "#" /\ k # 0 THEN Slice(a, 1, k - 1) ELSE a)))

\* lines 2037-2051: comments are stripped while "__#" and "<#" are protected
strip_comments(text_in) ==
    Let(ReplaceAll(ReplaceAll(text_in, <<"__", "#">>, <<PROTECT>>),
                   <<"<", "#">>, <<"<", PROTECT>>), LAMBDA protected_text :
    Let(Split(protected_text, "\n"), LAMBDA lines :
    Let([i \in 1..Len(lines) |-> clean_line(lines[i])], LAMBDA cleaned :
    Let(SelectSeq(cleaned, LAMBDA l : l # <<>>), LAMBDA clean_lines :
        ReplaceAll(ReplaceAll(Join(clean_lines, <<"\n">>), <<PROTECT>>, <<"#">>),
                   <<"<", PROTECT>>, <<"<", "#">>)))))

\* start of the leftmost "**" that has a closing "**" on the same line
NextNegative(s, from) ==
    LET S == {i \in from..Len(s) :
                /\ s[i] = "**"
                /\ FirstOf(s, i + 1, {"**"}) # 0
                /\ ~\E m \in (i + 1)..(FirstOf(s, i + 1, {"**"}) - 1) : s[m] = "\n"}
    IN IF S = {} THEN 0 ELSE MinOf(S)

\* re.findall(r'\*\*.*?\*\*', text)
RECURSIVE negative_matches(_, _)
negative_matches(s, from) ==
    Let(NextNegative(s, from), LAMBDA i :
    IF i = 0 THEN <<>>
    ELSE Let(FirstOf(s, i + 1, {"**"}), LAMBDA j :
             <<Slice(s, i, j)>> \o negative_matches(s, j + 1)))

\* NegativePromptGenerator.add_list(tags), the generator being its negative_list
RECURSIVE add_list(_, _)
add_list(negative_list, tags) ==
    IF tags = <<>> THEN negative_list
    ELSE Let(Strip(tags[1]), LAMBDA tag :
         Let(\E i \in 1..Len(negative_list) : LowerSeq(negative_list[i]) = LowerSeq(tag), LAMBDA seen :
             add_list(IF tag # <<>> /\ ~seen THEN Append(negative_list, tag) ELSE negative_list,
                      Tail(tags))))

\* NegativePromptGenerator.strip_negative_tags(text)
RECURSIVE strip_matches(_, _)
strip_matches(s, matches) ==
    IF matches = <<>> THEN s ELSE strip_matches(ReplaceAll(s, matches[1], <<>>), Tail(matches))

strip_negative_tags(s, negative_list) ==
    Let(negative_matches(s, 1), LAMBDA matches :
    Let([i \in 1..Len(matches) |-> SelectSeq(matches[i], LAMBDA tok : tok # "**")], LAMBDA tags :
        [text |-> strip_matches(s, matches), negative_list |-> add_list(negative_list, tags)]))

\* re.sub(r',\s*,', ',', prompt)
RECURSIVE collapse_commas(_, _)
collapse_commas(s, from) ==
    LET S == {i \in from..Len(s) : s[i] = "," /\ SkipSpace(s, i + 1) <= Len(s) /\ s[SkipSpace(s, i + 1)] = ","}
    IN IF S = {} THEN Slice(s, from, Len(s))
       ELSE Slice(s, from, MinOf(S)) \o collapse_commas(s, SkipSpace(s, MinOf(S) + 1) + 1)

\* str.strip(',')
strip_commas(s) ==
    LET S == {i \in 1..Len(s) : s[i] # ","}
    IN IF S = {} THEN <<>> ELSE SubSeq(s, MinOf(S), MaxOf(S))

\* _level(val) of append_trace_summary and append_debug_summary
_level(d, name) ==
    IF name \notin DOMAIN d THEN 1
    ELSE IF IsInt(d[name]) THEN IntOf(d[name])
    ELSE IF LowerSeq(Strip(d[name])) \in {<<"true">>, <<"yes">>, <<"on">>} THEN 1
    ELSE 0

Part(d, label, name) == IF Get(d, name, <<>>) # <<>> THEN << <<label, "=">> \o d[name] >> ELSE <<>>

SummaryOff(d, name) == Get(d, name, <<>>) = <<>> \/ Strip(d[name]) \in {<<"0">>, <<"false">>, <<"False">>}

\* append_trace_summary(prompt, variables)
append_trace_summary(p, d) ==
    IF SummaryOff(d, "trace_summary") THEN p
    ELSE Let(<< <<"TRACE">>, <<"seed", "=">> \o Get(d, "trace_seed", <<>>),
                <<"run", "=">> \o Get(d, "trace_run_id", <<>>) >>
               \o Part(d, "type", "trace_last_type") \o Part(d, "src", "trace_last_source")
               \o Part(d, "pick", "trace_last_pick"), LAMBDA base :
         Let(Part(d, "row_id", "trace_row_id") \o Part(d, "row", "trace_row_index")
               \o Part(d, "yaml", "trace_yaml_entry")
               \o (IF Get(d, "trace_last_roll", <<>>) # <<>> /\ Get(d, "trace_last_total_weight", <<>>) # <<>>
                   THEN << <<"roll", "=">> \o d["trace_last_roll"] \o <<"/">> \o d["trace_last_total_weight"] >>
                   ELSE <<>>)
               \o Part(d, "cond", "trace_last_condition") \o Part(d, "branch", "trace_last_branch")
               \o (IF Get(d, "trace_last_var", <<>>) # <<>> /\ Get(d, "trace_last_var_source", <<>>) # <<>>
                   THEN << <<"var", "=">> \o d["trace_last_var"] \o <<":">> \o d["trace_last_var_source"] >>
                   ELSE <<>>), LAMBDA more :
         Let(IF _level(d, "trace") >= 2 THEN base \o more ELSE base, LAMBDA parts :
             <<"<", "<">> \o Join(parts, <<" ", "|", " ">>) \o <<">", ">", "\n">> \o p)))

\* append_debug_summary(prompt, variables)
append_debug_summary(p, d) ==
    IF SummaryOff(d, "debug_summary") THEN p
    ELSE Let(<< <<"DBG">>, <<"seed", "=">> \o Get(d, "debug_seed", <<>>),
                <<"run", "=">> \o Get(d, "debug_run_id", <<>>) >>
               \o Part(d, "type", "debug_last_type") \o Part(d, "src", "debug_last_source")
               \o Part(d, "pick", "debug_last_pick"), LAMBDA base :
         Let(Part(d, "count", "debug_last_count") \o Part(d, "row_id", "debug_row_id")
               \o Part(d, "row", "debug_row_index") \o Part(d, "yaml", "debug_yaml_entry")
               \o (IF Get(d, "debug_last_roll", <<>>) # <<>> /\ Get(d, "debug_last_total_weight", <<>>) # <<>>
                   THEN << <<"roll", "=">> \o d["debug_last_roll"] \o <<"/">> \o d["debug_last_total_weight"] >>
                   ELSE <<>>), LAMBDA more :
         Let(IF _level(d, "debug") >= 2 THEN base \o more ELSE base, LAMBDA parts :
             <<"<", "<">> \o Join(parts, <<" ", "|", " ">>) \o <<">", ">", "\n">> \o p)))

\* self.regex.sub("", text) of LoRAHandler.extract_and_load, which returns the
\* cleaned text when no model is connected
RECURSIVE extract_and_load(_, _)
extract_and_load(s, from) ==
    LET S == {i \in from..(Len(s) - 3) :
                /\ s[i] = "<" /\ Lower(s[i + 1]) = "lora" /\ s[i + 2] = ":"
                /\ FirstOf(s, i + 3, {">"}) > i + 3}
    IN IF S = {} THEN Slice(s, from, Len(s))
       ELSE Slice(s, from, MinOf(S) - 1) \o extract_and_load(s, FirstOf(s, MinOf(S) + 3, {">"}) + 1)

\* extract_settings(text): the text without its @@...@@ blocks
RECURSIVE extract_settings(_, _)
extract_settings(s, from) ==
    LET S == {i \in from..Len(s) :
                /\ s[i] = "@@"
                /\ FirstOf(s, i + 1, {"@@"}) # 0
                /\ ~\E m \in (i + 1)..(FirstOf(s, i + 1, {"@@"}) - 1) : s[m] = "\n"}
    IN IF S = {} THEN Slice(s, from, Len(s))
       ELSE Slice(s, from, MinOf(S) - 1) \o extract_settings(s, FirstOf(s, MinOf(S) + 1, {"@@"}) + 1)

\* lines 2133-2171 of process: the (positive, negative) pair returned, for a
\* call without input_negative and without a model
finish(p, V, S, scoped_negatives) ==
    Let(add_list(<<>>, scoped_negatives), LAMBDA neg0 :
    Let(strip_negative_tags(p, neg0), LAMBDA stripped :
    Let(strip_commas(Strip(collapse_spaces(collapse_commas(stripped.text, 1)))), LAMBDA tidy :
    Let(IF Enabled(S, "trace") THEN append_trace_summary(tidy, V) ELSE tidy, LAMBDA traced :
    Let(IF Enabled(S, "debug") THEN append_debug_summary(traced, V) ELSE traced, LAMBDA debugged :
    Let(Join(stripped.negative_list, <<",", " ">>), LAMBDA generated_negatives :
        [positive |-> extract_settings(extract_and_load(debugged, 1), 1),
         negative |-> Strip(collapse_commas(generated_negatives, 1))]))))))

-----------------------------------------------------------------------------
(* UmiAIWildcardNode.process (nodes.py) *)

Assert1 == <<"[", "assert", ":", " ", "$", "trace_run_id", " ", "ENDSWITH", " ", "1", " ", "|", " ", "odd", "]">>
IfElif == <<"[", "if", " ", "$", "x", "==", "yes", ":", " ", "A", " ", "|", " ", "elif", " ",
            "$", "x", "==", "no", ":", " ", "B", " ", "|", " ", "else", ":", " ", "C", "]">>
IfBlock == <<"[", "if", " ", "a", ":", "b", "]">>

\* The templates handed to process()
Templates ==
    { <<"a", ",", " ", "b", " ", "//", " ", "note">>,
      <<"__", "one", "__">>,
      <<"__", "two", "__">>,
      <<"__", "missing", "__">>,
      <<"$", "fail_fast", " ", "=", " ", "1", "\n", "__", "missing", "__">>,
      <<"__", "itself", "__">>,
      <<"__", "a", "__">>,
      <<"__", "a", "__", " ", "and", " ", "__", "b", "__">>,
      <<"__", "c0", "__">>,
      <<"$", "w", " ", "=", " ", "x", " ", "$", "w", "\n", "$", "w">>,
      <<"$", "v", " ", "=", " ", "{", "a", "|", "b", "}", "\n",
        "[", "if", " ", "$", "v", "==", "a", ":", " ", "X", "|", "Y", "]">>,
      <<"{", "a", "-", "b", "$$", "x", "|", "y", "}">>,
      <<"{", "1", "-", "2", "$$", "x", "|", "y", "}">>,
      <<"[", "if", " ", "x", ":", " ", "{", "a", "|", "b">>,
      <<"__", "#", "1", "$$", "one", "__", " ", "and", " ", "__", "#", "1", "$$", "one", "__">>,
      <<"<", "#", "1", "$$", "one", ">">>,
      <<"$", "x", " ", "=", " ", "no", "\n">> \o IfElif,
      <<"$", "trace", " ", "=", " ", "1", "\n", "__", "one", "__", " ">> \o Assert1,
      <<"$", "trace", " ", "=", " ", "1", "\n", "$", "trace_summary", " ", "=", " ", "1", "\n",
        "__", "one", "__">> }

\* the state of the objects process() constructs
NewSelector ==
    [variables |-> EmptyDict, rng |-> 0, previously_selected_tags |-> [x \in {} |-> 0],
     used_values |-> {}, seeded_values |-> EmptyDict, scoped_negatives |-> <<>>]
NewDynamic == [rng |-> 0]
NoResult == [positive |-> <<>>, negative |-> <<>>]
NoOutcome == [pc |-> "", result |-> NoResult, exc |-> ""]

\* the context of the calls one statement of process() makes: the objects'
\* states, the generator output st, the clock reading t, and whether the
\* clock has been read
Ctx(st, t) ==
    [V |-> variables, S |-> sel.variables, spos |-> sel.rng, dpos |-> dyn.rng,
     counts |-> sel.previously_selected_tags, used |-> sel.used_values,
     seeded |-> sel.seeded_values, negs |-> sel.scoped_negatives,
     exc |-> "", st |-> st, t |-> t, clock |-> FALSE, seed |-> seed]

SelectorOf(c) ==
    [variables |-> c.S, rng |-> c.spos, previously_selected_tags |-> c.counts,
     used_values |-> c.used, seeded_values |-> c.seeded, scoped_negatives |-> c.negs]

\* the generator outputs compatible with what has been drawn so far
Candidates == IF stream = <<>> THEN Streams ELSE {stream}
AnyStream == CHOOSE st \in Candidates : TRUE
Draws(c) == c.spos # sel.rng \/ c.dpos # dyn.rng
Drawn(c, st) == IF Draws(c) THEN st ELSE stream
\* the outputs and clock readings that calls can tell apart, c being the
\* context after the calls under AnyStream and clock reading 1: calls that
\* make no draw, or do not read the clock, have one outcome
StreamsFor(c) == IF Draws(c) THEN Candidates ELSE {AnyStream}
ClocksFor(c) == IF c.clock THEN 1..MaxClock ELSE {1}
\* the outcomes r of the calls Call makes from the objects' states, each with
\* the generator output st it was made under
Outcomes(Call(_)) ==
    Let(Call(Ctx(AnyStream, 1)).c, LAMBDA probe :
        {[st |-> st, r |-> Call(Ctx(st, t))] : st \in StreamsFor(probe), t \in ClocksFor(probe)})

\* the objects after the calls made in context c; an exception ends the call
Commit(c, st, next_pc) ==
    /\ variables' = c.V
    /\ dyn' = [rng |-> c.dpos]
    /\ stream' = Drawn(c, st)
    /\ exc' = c.exc
    /\ pc' = IF c.exc # "" THEN "raised" ELSE next_pc

\* lines 2037-2091: comments stripped, objects constructed
Begin ==
    /\ entry = "process" /\ pc = "start"
    /\ prompt' = strip_comments(text)
    /\ previous_prompt' = <<>>
    /\ iterations' = 0
    /\ prompt_history' = <<>>
    /\ variables' = EmptyDict
    /\ sel' = NewSelector
    /\ dyn' = NewDynamic
    /\ replace_count' = 0 /\ cond_iter' = 0
    /\ pc' = "loop"
    /\ UNCHANGED <<entry, text, seed, stream, run, exc, result, first_result>>
    /\ UNCHANGED <<index_vars, cache_vars>>

max_process_iterations == 50

\* the loop condition with the cap compared by <= instead of <
LoopConditionOffByOne ==
    /\ previous_prompt # prompt
    /\ iterations <= max_process_iterations
    /\ ~\E h \in 1..Len(prompt_history) : prompt_history[h] = prompt

LoopCondition ==
    /\ previous_prompt # prompt
    /\ iterations < max_process_iterations
    /\ ~\E h \in 1..Len(prompt_history) : prompt_history[h] = prompt

\* lines 2093-2105: the loop is entered; assignments are stored and variables
\* substituted.  update_variables makes the selector share the dict that
\* replace_variables fills with the resolved values.
Iterate ==
    /\ entry = "process" /\ pc = "loop" /\ LoopCondition
    /\ \E o \in Outcomes(LAMBDA c : store_variables(prompt, c)) :
         /\ prompt_history' = Append(prompt_history, prompt)
         /\ previous_prompt' = prompt
         /\ prompt' = IF o.r.c.exc # "" THEN prompt ELSE replace_variables(o.r.text, o.r.c.V)
         /\ sel' = IF o.r.c.exc # "" THEN SelectorOf(o.r.c)
                   ELSE [SelectorOf(o.r.c) EXCEPT !.variables = ResolvedVars(o.r.c.V)]
         /\ Commit(o.r.c, o.st, "expand")
    /\ UNCHANGED <<entry, text, seed, run, iterations, replace_count, cond_iter, result, first_result>>
    /\ UNCHANGED <<index_vars, cache_vars>>

\* lines 2107-2114: the [if] blocks masked, then tag_replacer.replace and
\* dynamic_replacer.replace
expand(p, c) ==
    Let(mask_conditionals(p, <<>>), LAMBDA masked :
    Let(tag_replace(masked.text, c), LAMBDA tagged :
    Let(dynamic_replace(tagged.text, tagged.c), LAMBDA chosen :
        [text |-> IF chosen.c.exc # "" THEN p ELSE unmask_conditionals(chosen.text, masked.blocks, 1),
         c |-> chosen.c, count |-> tagged.count])))

\* lines 2107-2117: wildcards and choices are expanded outside [if] blocks
Expand ==
    /\ entry = "process" /\ pc = "expand"
    /\ \E o \in Outcomes(LAMBDA c : expand(prompt, c)) :
         /\ prompt' = o.r.text
         /\ replace_count' = o.r.count
         /\ sel' = SelectorOf(o.r.c)
         /\ cond_iter' = IF o.r.c.exc # "" THEN cond_iter ELSE 0
         /\ Commit(o.r.c, o.st, "conditional")
    /\ UNCHANGED <<entry, text, seed, run, previous_prompt, iterations, prompt_history,
                   result, first_result>>
    /\ UNCHANGED <<index_vars, cache_vars>>

\* the while loop of ConditionalReplacer.replace goes on
ConditionalLoop == cond_iter < max_conditional_iterations /\ CanReplaceConditional(prompt)

\* line 2118, and ConditionalReplacer.replace(prompt, variables) called alone,
\* iteration being 0 when the call starts: one iteration of the while loop
Conditional ==
    /\ pc = "conditional" /\ ConditionalLoop
    /\ \E r \in {replace_conditional_once(prompt, variables)} :
         /\ prompt' = r.prompt
         /\ variables' = r.variables
    /\ cond_iter' = cond_iter + 1
    /\ UNCHANGED <<entry, pc, text, seed, stream, run, previous_prompt, iterations, prompt_history,
                   sel, dyn, replace_count, exc, result, first_result>>
    /\ UNCHANGED <<index_vars, cache_vars>>

\* the while loop has ended and ConditionalReplacer.replace returns the prompt
ConditionalReturn ==
    /\ pc = "conditional" /\ ~ConditionalLoop
    /\ pc' = IF entry = "process" THEN "capture" ELSE "done"
    /\ UNCHANGED <<entry, text, seed, stream, run, prompt, previous_prompt, iterations,
                   prompt_history, variables, sel, dyn, replace_count, cond_iter, exc,
                   result, first_result>>
    /\ UNCHANGED <<index_vars, cache_vars>>

\* lines 2121-2125: assignments revealed by the conditionals are captured
Capture ==
    /\ entry = "process" /\ pc = "capture"
    /\ \E o \in Outcomes(LAMBDA c : store_variables(prompt, c)) :
         /\ prompt' = IF o.r.c.exc # "" THEN prompt ELSE replace_variables(o.r.text, o.r.c.V)
         /\ sel' = IF o.r.c.exc # "" THEN SelectorOf(o.r.c)
                   ELSE [SelectorOf(o.r.c) EXCEPT !.variables = ResolvedVars(o.r.c.V)]
         /\ iterations' = IF o.r.c.exc # "" THEN iterations ELSE iterations + 1
         /\ Commit(o.r.c, o.st, "loop")
    /\ UNCHANGED <<entry, text, seed, run, previous_prompt, prompt_history, replace_count, cond_iter,
                   result, first_result>>
    /\ UNCHANGED <<index_vars, cache_vars>>

\* lines 2133-2171: the loop has ended; the result is assembled and returned
Return ==
    /\ entry = "process" /\ pc = "loop" /\ ~LoopCondition
    /\ result' = finish(prompt, variables, sel.variables, sel.scoped_negatives)
    /\ pc' = "done"
    /\ UNCHANGED <<entry, text, seed, stream, run, prompt, previous_prompt, iterations,
                   prompt_history, variables, sel, dyn, replace_count, cond_iter, exc, first_result>>
    /\ UNCHANGED <<index_vars, cache_vars>>

\* the caller calls process() again with the same text and seed
Again ==
    /\ entry = "process" /\ pc \in {"done", "raised"} /\ run = 1
    /\ first_result' = [pc |-> pc, result |-> result, exc |-> exc]
    /\ run' = 2
    /\ pc' = "start"
    /\ exc' = ""
    /\ result' = NoResult
    /\ UNCHANGED <<entry, text, seed, stream, prompt, previous_prompt, iterations,
                   prompt_history, variables, sel, dyn, replace_count, cond_iter>>
    /\ UNCHANGED <<index_vars, cache_vars>>

\* The prompts and variables handed to ConditionalReplacer.replace
RECURSIVE Repeat(_, _)
Repeat(s, n) == IF n = 0 THEN <<>> ELSE s \o Repeat(s, n - 1)

\* Number of [if] blocks of the longest prompt: one more than the cap
MaxBlocks == 101

ConditionalCalls ==
    {[prompt |-> IfElif, variables |-> V] :
        V \in {EmptyDict, Put(EmptyDict, "x", <<"yes">>), Put(EmptyDict, "x", <<"no">>)}}
      \cup {[prompt |-> Repeat(IfBlock, n), variables |-> EmptyDict] : n \in {1, 2, MaxBlocks}}

\* the index and cache machines at rest
NoBuild == [by |-> 0, use_folder_paths |-> "None", content |-> 0]
NewIndex ==
    [built |-> FALSE, files |-> NoBuild, entries |-> NoBuild, tags |-> NoBuild,
     use_folder_paths |-> "None"]
NewFile == [content |-> 0, mtime |-> 0]
NoCall == [pc |-> "idle", lines |-> 0, current_mtime |-> 0, started |-> 0,
           returned |-> 0, from_cache |-> FALSE]

NewIndexLite == [built |-> FALSE, files |-> NoBuild, entries |-> <<>>, tags |-> NoBuild]

IndexIdle ==
    /\ variant = "none" /\ loader = <<>>
    /\ GLOBAL_INDEX = NewIndex /\ GLOBAL_INDEX_LITE = NewIndexLite
CacheIdle ==
    file = NewFile /\ GLOBAL_CACHE = <<>> /\ FILE_MTIME_CACHE = <<>> /\ call = NoCall
ProcessIdle ==
    /\ entry = "none" /\ pc = "idle"
    /\ text = <<>> /\ seed = 0 /\ stream = <<>> /\ run = 1
    /\ prompt = <<>> /\ previous_prompt = <<>> /\ iterations = 0 /\ prompt_history = <<>>
    /\ variables = EmptyDict
    /\ sel = NewSelector /\ dyn = NewDynamic
    /\ replace_count = 0 /\ cond_iter = 0
    /\ exc = "" /\ result = NoResult /\ first_result = NoOutcome

InitProcess ==
    /\ entry = "process" /\ pc = "start"
    /\ text \in Templates
    /\ seed \in 0..MaxSeed
    /\ stream = <<>>
    /\ run = 1
    /\ prompt = <<>> /\ previous_prompt = <<>> /\ iterations = 0 /\ prompt_history = <<>>
    /\ variables = EmptyDict
    /\ sel = NewSelector /\ dyn = NewDynamic
    /\ replace_count = 0 /\ cond_iter = 0
    /\ exc = "" /\ result = NoResult /\ first_result = NoOutcome
    /\ IndexIdle /\ CacheIdle

InitConditional ==
    /\ entry = "conditional_replace" /\ pc = "conditional"
    /\ \E c \in ConditionalCalls : text = c.prompt /\ prompt = c.prompt /\ variables = c.variables
    /\ seed = 0 /\ stream = <<>> /\ run = 1
    /\ previous_prompt = <<>> /\ iterations = 0 /\ prompt_history = <<>>
    /\ sel = NewSelector /\ dyn = NewDynamic
    /\ replace_count = 0 /\ cond_iter = 0
    /\ exc = "" /\ result = NoResult /\ first_result = NoOutcome
    /\ IndexIdle /\ CacheIdle

Init == InitProcess \/ InitConditional

Next == Begin \/ Iterate \/ Expand \/ Conditional \/ ConditionalReturn \/ Capture \/ Return \/ Again

Spec == Init /\ [][Next]_vars

-----------------------------------------------------------------------------
(* process() called once on templates made of comma-separated items *)

\* Largest number of items of a template
MaxItems == 3

Word(w) == <<w>>
InlineNegative(tag) == <<"**", tag, "**">>
NegMarker(tag) == <<"--neg:", " ", tag>>

PositiveItems == {Word("cat"), Word("dog")}
NegativeItems == {InlineNegative("blurry"), InlineNegative("lowres")}
MarkerItems == {NegMarker("blurry")}

ItemLists(items) == UNION {[1..n -> items] : n \in 1..MaxItems}

Keep(items, S) == SelectSeq(items, LAMBDA item : item \in S)

\* the template that lists the items, as in "cat, **blurry**, dog"
Listed(items) == Join(items, <<",", " ">>)

RenderTemplates ==
    {Listed(items) : items \in ItemLists(PositiveItems \cup NegativeItems \cup MarkerItems)}

InitRender ==
    /\ entry = "process" /\ pc = "start"
    /\ text \in RenderTemplates
    /\ seed = 0
    /\ stream = <<>>
    /\ run = 1
    /\ prompt = <<>> /\ previous_prompt = <<>> /\ iterations = 0 /\ prompt_history = <<>>
    /\ variables = EmptyDict
    /\ sel = NewSelector /\ dyn = NewDynamic
    /\ replace_count = 0 /\ cond_iter = 0
    /\ exc = "" /\ result = NoResult /\ first_result = NoOutcome
    /\ IndexIdle /\ CacheIdle

NextRender == Begin \/ Iterate \/ Expand \/ ConditionalReturn \/ Capture \/ Return

SpecRender == InitRender /\ [][NextRender]_vars

-----------------------------------------------------------------------------
(* LogicEvaluator(expression, variables).evaluate(context) called once.  The *)
(* operands a, b and c are bare words: each is true when the context text    *)
(* holds it.                                                                 *)

BoolOps == {"AND", "OR", "XOR", "NAND", "NOR"}

\* well-formed expressions
Flat(op1, op2) == <<"a", " ", op1, " ", "b", " ", op2, " ", "c">>
GroupLeft(op1, op2) == <<"(", "a", " ", op1, " ", "b", ")", " ", op2, " ", "c">>
GroupRight(op1, op2) == <<"a", " ", op1, " ", "(", "b", " ", op2, " ", "c", ")">>
Negated(op) == <<"NOT", " ", "a", " ", op, " ", "b">>
NegatedGroup(op) == <<"NOT", " ", "(", "a", " ", op, " ", "b", ")">>

WellFormed ==
    {Flat(op1, op2) : op1 \in BoolOps, op2 \in BoolOps}
      \cup {GroupLeft(op1, op2) : op1 \in BoolOps, op2 \in BoolOps}
      \cup {GroupRight(op1, op2) : op1 \in BoolOps, op2 \in BoolOps}
      \cup {Negated(op) : op \in BoolOps} \cup {NegatedGroup(op) : op \in BoolOps}

\* expressions that are not well-formed
MissingOperand ==
    {<<"a", " ", op>> : op \in BoolOps} \cup {<<op, " ", "a">> : op \in BoolOps}
      \cup {<<"a", " ", op, " ", op, " ", "b">> : op \in BoolOps}
      \cup {<<"NOT">>, <<"a", " ", "NOT">>}
NoOperator ==
    {<<"a", " ", "b">>, <<"b", " ", "a">>, <<"c", " ", "c">>}
      \cup {<<"a", " ", "b", " ", op, " ", "c">> : op \in BoolOps}
Unbalanced ==
    {<<"(", "a">>, <<"a", ")">>, <<"(", "(", "a", ")">>}
      \cup {<<"(", "a", " ", op, " ", "b">> : op \in BoolOps}
      \cup {<<"a", " ", op, " ", "b", ")">> : op \in BoolOps}
EmptyExpression == {<<>>, <<" ">>}
InvalidPattern ==
    {<<"a", " ", "MATCHES", " ", "[">>, <<"$", "v", " ", "MATCHES", " ", "*">>,
     <<"$", "v", " ", "MATCHES", " ", "[", "a">>}
Malformed == MissingOperand \cup NoOperator \cup Unbalanced \cup EmptyExpression \cup InvalidPattern

Expressions == WellFormed \cup Malformed

\* the context texts: every choice of the operands that are true
Contexts ==
    {Join(Keep(<< <<"a">>, <<"b">>, <<"c">> >>, S), <<" ">>) : S \in SUBSET {<<"a">>, <<"b">>, <<"c">>}}
VariableMaps == {EmptyDict, Put(EmptyDict, "v", <<"a">>)}

InitLogic ==
    /\ entry = "evaluate" /\ pc = "start"
    /\ text \in Expressions
    /\ prompt \in Contexts
    /\ variables \in VariableMaps
    /\ seed = 0 /\ stream = <<>> /\ run = 1
    /\ previous_prompt = <<>> /\ iterations = 0 /\ prompt_history = <<>>
    /\ sel = NewSelector /\ dyn = NewDynamic
    /\ replace_count = 0 /\ cond_iter = 0
    /\ exc = "" /\ result = NoResult /\ first_result = NoOutcome
    /\ IndexIdle /\ CacheIdle

\* evaluate(context) returns
Evaluate ==
    /\ entry = "evaluate" /\ pc = "start"
    /\ result' = [value |-> evaluate(text, variables, prompt)]
    /\ pc' = "done"
    /\ UNCHANGED <<entry, text, seed, stream, run, prompt, previous_prompt, iterations,
                   prompt_history, variables, sel, dyn, replace_count, cond_iter, exc, first_result>>
    /\ UNCHANGED <<index_vars, cache_vars>>

NextLogic == Evaluate

SpecLogic == InitLogic /\ [][NextLogic]_vars

-----------------------------------------------------------------------------
(* TagReplacer.replace_functions(text) called once on a text that holds an   *)
(* [assert:] tag, the selector holding the variables.                        *)

Conditions ==
    {<<"$", "x", "==", "1">>, <<"$", "x">>, <<"NOT", " ", "$", "x">>, <<"cat">>, <<"NOT", " ", "cat">>}
LabelSeparators == {<<"|">>, <<" ", "|", " ">>, <<" ", "|">>, <<"|", " ">>}
Labels == {<<"label">>, <<"not", " ", "one">>}
Prefixes == {<<>>, <<"cat", " ">>, <<"dog", " ">>}

AssertTag(cond, sep, label) == <<"[", "assert", ":">> \o cond \o sep \o label \o <<"]">>
AssertTexts ==
    {prefix \o AssertTag(cond, sep, label) :
        prefix \in Prefixes, cond \in Conditions, sep \in LabelSeparators, label \in Labels}
SelectorVariables ==
    {EmptyDict, Put(EmptyDict, "x", <<"1">>), Put(EmptyDict, "x", <<"2">>), Put(EmptyDict, "x", <<"0">>)}

InitFunctions ==
    /\ entry = "replace_functions" /\ pc = "start"
    /\ text \in AssertTexts
    /\ variables \in SelectorVariables
    /\ sel = [NewSelector EXCEPT !.variables = variables]
    /\ seed = 0 /\ stream = <<>> /\ run = 1
    /\ prompt = <<>> /\ previous_prompt = <<>> /\ iterations = 0 /\ prompt_history = <<>>
    /\ dyn = NewDynamic
    /\ replace_count = 0 /\ cond_iter = 0
    /\ exc = "" /\ result = NoResult /\ first_result = NoOutcome
    /\ IndexIdle /\ CacheIdle

\* replace_functions(text) returns
ReplaceFunctions ==
    /\ entry = "replace_functions" /\ pc = "start"
    /\ prompt' = replace_functions(text, Ctx(AnyStream, 1))
    /\ pc' = "done"
    /\ UNCHANGED <<entry, text, seed, stream, run, previous_prompt, iterations, prompt_history,
                   variables, sel, dyn, replace_count, cond_iter, exc, result, first_result>>
    /\ UNCHANGED <<index_vars, cache_vars>>

NextFunctions == ReplaceFunctions

SpecFunctions == InitFunctions /\ [][NextFunctions]_vars

-----------------------------------------------------------------------------
(* TagLoader.build_index (nodes.py) run by two threads, statement by         *)
(* statement.  A part of an index (files, entries, tags) is named by the     *)
(* build that made it: the thread that scanned the files and the             *)
(* use_folder_paths setting its lookup maps were made with, and the content *)
(* the .yaml file had when it was read.                                      *)

Threads == {1, 2}
Settings == {"False", "True"}

\* TagLoader.__init__: nothing indexed yet
NewLoader(start, setting) ==
    [pc |-> start, use_folder_paths |-> setting, cached_setting |-> "None", started |-> file.mtime,
     files_index |-> NoBuild, yaml_entries |-> NoBuild, umi_tags |-> NoBuild,
     index_built |-> FALSE]

At(t, variant_, pc_) == variant = variant_ /\ loader[t].pc = pc_

\* line 486
ReadSetting(t) ==
    /\ At(t, "full", "start")
    /\ loader' = [loader EXCEPT ![t].cached_setting = GLOBAL_INDEX.use_folder_paths,
                                ![t].pc = "check"]
    /\ UNCHANGED <<variant, GLOBAL_INDEX, GLOBAL_INDEX_LITE, process_vars, cache_vars>>

\* line 487
CheckBuilt(t) ==
    /\ At(t, "full", "check")
    /\ loader' = [loader EXCEPT ![t].pc =
                    IF GLOBAL_INDEX.built /\ loader[t].cached_setting = loader[t].use_folder_paths
                    THEN "adopt_files" ELSE "recheck"]
    /\ UNCHANGED <<variant, GLOBAL_INDEX, GLOBAL_INDEX_LITE, process_vars, cache_vars>>

\* line 488
AdoptFiles(t) ==
    /\ At(t, "full", "adopt_files")
    /\ loader' = [loader EXCEPT ![t].files_index = GLOBAL_INDEX.files, ![t].pc = "adopt_entries"]
    /\ UNCHANGED <<variant, GLOBAL_INDEX, GLOBAL_INDEX_LITE, process_vars, cache_vars>>

\* line 489
AdoptEntries(t) ==
    /\ At(t, "full", "adopt_entries")
    /\ loader' = [loader EXCEPT ![t].yaml_entries = GLOBAL_INDEX.entries, ![t].pc = "adopt_tags"]
    /\ UNCHANGED <<variant, GLOBAL_INDEX, GLOBAL_INDEX_LITE, process_vars, cache_vars>>

\* lines 490-492
AdoptTags(t) ==
    /\ At(t, "full", "adopt_tags")
    /\ loader' = [loader EXCEPT ![t].umi_tags = GLOBAL_INDEX.tags, ![t].index_built = TRUE,
                                ![t].pc = "done"]
    /\ UNCHANGED <<variant, GLOBAL_INDEX, GLOBAL_INDEX_LITE, process_vars, cache_vars>>

\* lines 495-500: the index was built under the other setting
Invalidate(t) ==
    /\ At(t, "full", "recheck")
    /\ IF GLOBAL_INDEX.built /\ loader[t].cached_setting # loader[t].use_folder_paths
       THEN /\ GLOBAL_INDEX' = [GLOBAL_INDEX EXCEPT !.built = FALSE]
            /\ loader' = [loader EXCEPT ![t].index_built = FALSE, ![t].pc = "built_check"]
       ELSE /\ loader' = [loader EXCEPT ![t].pc = "built_check"]
            /\ UNCHANGED GLOBAL_INDEX
    /\ UNCHANGED <<variant, GLOBAL_INDEX_LITE, process_vars, cache_vars>>

\* lines 502-503
AlreadyBuilt(t) ==
    /\ At(t, "full", "built_check")
    /\ loader' = [loader EXCEPT ![t].pc = IF loader[t].index_built THEN "done" ELSE "scan"]
    /\ UNCHANGED <<variant, GLOBAL_INDEX, GLOBAL_INDEX_LITE, process_vars, cache_vars>>

\* lines 505-537: the files are scanned into new sets, which the loader takes
Scan(t) ==
    /\ At(t, "full", "scan")
    /\ LET new == [by |-> t, use_folder_paths |-> loader[t].use_folder_paths,
                   content |-> file.content]
       IN loader' = [loader EXCEPT ![t].files_index = new, ![t].yaml_entries = new,
                                   ![t].umi_tags = new, ![t].index_built = TRUE,
                                   ![t].pc = "publish_files"]
    /\ UNCHANGED <<variant, GLOBAL_INDEX, GLOBAL_INDEX_LITE, process_vars, cache_vars>>

\* lines 539-543, one assignment each
Publish(t, at, field, value, next_pc) ==
    /\ At(t, "full", at)
    /\ GLOBAL_INDEX' = [GLOBAL_INDEX EXCEPT ![field] = value]
    /\ loader' = [loader EXCEPT ![t].pc = next_pc]
    /\ UNCHANGED <<variant, GLOBAL_INDEX_LITE, process_vars, cache_vars>>

PublishFiles(t) == Publish(t, "publish_files", "files", loader[t].files_index, "publish_entries")
PublishEntries(t) == Publish(t, "publish_entries", "entries", loader[t].yaml_entries, "publish_tags")
PublishTags(t) == Publish(t, "publish_tags", "tags", loader[t].umi_tags, "publish_built")
PublishBuilt(t) == Publish(t, "publish_built", "built", TRUE, "publish_setting")
PublishSetting(t) ==
    Publish(t, "publish_setting", "use_folder_paths", loader[t].use_folder_paths, "done")

\* load_tags(ALL_KEY), line 580: the loader's build_index() is called again
CallAgain(t) ==
    /\ At(t, "full", "done")
    /\ loader' = [loader EXCEPT ![t].pc = "start", ![t].started = file.mtime]
    /\ UNCHANGED <<variant, GLOBAL_INDEX, GLOBAL_INDEX_LITE, process_vars, cache_vars>>

-----------------------------------------------------------------------------
(* TagLoader.build_index and scan_yaml_for_tags (nodes_lite.py): called once *)
(* by the constructor.  The installation holds one .yaml file with one entry *)
(* that carries one tag.                                                     *)

\* what scan_yaml_for_tags appends to GLOBAL_INDEX_LITE['entries'][tag]
Registration == [file |-> "tagged.yaml", entry_key |-> "entry"]

\* line 58
LiteCheck(t) ==
    /\ At(t, "lite", "start")
    /\ loader' = [loader EXCEPT ![t].pc =
                    IF GLOBAL_INDEX_LITE.built THEN "adopt_files" ELSE "scan"]
    /\ UNCHANGED <<variant, GLOBAL_INDEX, GLOBAL_INDEX_LITE, process_vars, cache_vars>>

\* line 59
LiteAdoptFiles(t) ==
    /\ At(t, "lite", "adopt_files")
    /\ loader' = [loader EXCEPT ![t].files_index = GLOBAL_INDEX_LITE.files, ![t].pc = "adopt_tags"]
    /\ UNCHANGED <<variant, GLOBAL_INDEX, GLOBAL_INDEX_LITE, process_vars, cache_vars>>

\* lines 60-61
LiteAdoptTags(t) ==
    /\ At(t, "lite", "adopt_tags")
    /\ loader' = [loader EXCEPT ![t].umi_tags = GLOBAL_INDEX_LITE.tags, ![t].pc = "done"]
    /\ UNCHANGED <<variant, GLOBAL_INDEX, GLOBAL_INDEX_LITE, process_vars, cache_vars>>

\* lines 63-75 and scan_yaml_for_tags: names and tags go to the loader's own
\* sets, the entry is appended to the shared list of its tag
LiteScan(t) ==
    /\ At(t, "lite", "scan")
    /\ LET new == [by |-> t, use_folder_paths |-> "None", content |-> file.content]
       IN loader' = [loader EXCEPT ![t].files_index = new, ![t].umi_tags = new,
                                   ![t].pc = "publish_built"]
    /\ GLOBAL_INDEX_LITE' = [GLOBAL_INDEX_LITE EXCEPT !.entries = Append(@, Registration)]
    /\ UNCHANGED <<variant, GLOBAL_INDEX, process_vars, cache_vars>>

\* lines 77-79, one assignment each
LitePublish(t, at, field, value, next_pc) ==
    /\ At(t, "lite", at)
    /\ GLOBAL_INDEX_LITE' = [GLOBAL_INDEX_LITE EXCEPT ![field] = value]
    /\ loader' = [loader EXCEPT ![t].pc = next_pc]
    /\ UNCHANGED <<variant, GLOBAL_INDEX, process_vars, cache_vars>>

LitePublishBuilt(t) == LitePublish(t, "publish_built", "built", TRUE, "publish_files")
LitePublishFiles(t) == LitePublish(t, "publish_files", "files", loader[t].files_index, "publish_tags")
LitePublishTags(t) == LitePublish(t, "publish_tags", "tags", loader[t].umi_tags, "done")

InitIndex ==
    /\ ProcessIdle /\ CacheIdle
    /\ variant \in {"full", "lite"}
    /\ loader \in [Threads -> {NewLoader("start", u) : u \in Settings}]
    /\ variant = "lite" => \A t \in Threads : loader[t].use_folder_paths = "False"
    /\ GLOBAL_INDEX = NewIndex /\ GLOBAL_INDEX_LITE = NewIndexLite

NextIndex ==
    \E t \in DOMAIN loader :
        \/ ReadSetting(t) \/ CheckBuilt(t) \/ AdoptFiles(t) \/ AdoptEntries(t) \/ AdoptTags(t)
        \/ Invalidate(t) \/ AlreadyBuilt(t) \/ Scan(t)
        \/ PublishFiles(t) \/ PublishEntries(t) \/ PublishTags(t) \/ PublishBuilt(t)
        \/ PublishSetting(t) \/ CallAgain(t)
        \/ LiteCheck(t) \/ LiteAdoptFiles(t) \/ LiteAdoptTags(t) \/ LiteScan(t)
        \/ LitePublishBuilt(t) \/ LitePublishFiles(t) \/ LitePublishTags(t)

SpecIndex == InitIndex /\ [][NextIndex]_vars

-----------------------------------------------------------------------------
(* TagLoader.load_tags(name) for a .txt file (nodes.py lines 585-610), run   *)
(* while the file is being edited.  The content of the file is named by the  *)
(* write that made it; every write gives the file a later mtime.             *)

\* Number of writes made to the file
MaxWrites == 3

\* an editor saves the file
Write ==
    /\ file.mtime < MaxWrites
    /\ file' = [content |-> file.content + 1, mtime |-> file.mtime + 1]
    /\ UNCHANGED <<GLOBAL_CACHE, FILE_MTIME_CACHE, call, process_vars, index_vars>>

\* load_tags(name) is called
CallLoadTags ==
    /\ call.pc \in {"idle", "returned"}
    /\ call' = [NoCall EXCEPT !.pc = "lookup", !.started = file.mtime]
    /\ UNCHANGED <<file, GLOBAL_CACHE, FILE_MTIME_CACHE, process_vars, index_vars>>

\* lines 586-588
Lookup ==
    /\ call.pc = "lookup"
    /\ call' = [call EXCEPT !.pc = IF GLOBAL_CACHE # <<>> /\ FILE_MTIME_CACHE # <<>>
                                   THEN "stat" ELSE "open"]
    /\ UNCHANGED <<file, GLOBAL_CACHE, FILE_MTIME_CACHE, process_vars, index_vars>>

\* line 589
Stat ==
    /\ call.pc = "stat"
    /\ call' = [call EXCEPT !.current_mtime = file.mtime, !.pc = "compare"]
    /\ UNCHANGED <<file, GLOBAL_CACHE, FILE_MTIME_CACHE, process_vars, index_vars>>

\* lines 590-596
Compare ==
    /\ call.pc = "compare"
    /\ call' = IF call.current_mtime = FILE_MTIME_CACHE[1]
               THEN [call EXCEPT !.returned = GLOBAL_CACHE[1], !.from_cache = TRUE,
                                 !.pc = "returned"]
               ELSE [call EXCEPT !.pc = "open"]
    /\ UNCHANGED <<file, GLOBAL_CACHE, FILE_MTIME_CACHE, process_vars, index_vars>>

\* lines 600-602
ReadLines ==
    /\ call.pc = "open"
    /\ call' = [call EXCEPT !.lines = file.content, !.pc = "store"]
    /\ UNCHANGED <<file, GLOBAL_CACHE, FILE_MTIME_CACHE, process_vars, index_vars>>

\* line 603
StoreLines ==
    /\ call.pc = "store"
    /\ GLOBAL_CACHE' = <<call.lines>>
    /\ call' = [call EXCEPT !.pc = "stamp"]
    /\ UNCHANGED <<file, FILE_MTIME_CACHE, process_vars, index_vars>>

\* lines 604-607
StampMtime ==
    /\ call.pc = "stamp"
    /\ FILE_MTIME_CACHE' = <<file.mtime>>
    /\ call' = [call EXCEPT !.pc = "return"]
    /\ UNCHANGED <<file, GLOBAL_CACHE, process_vars, index_vars>>

\* line 608
ReturnLines ==
    /\ call.pc = "return"
    /\ call' = [call EXCEPT !.returned = call.lines, !.pc = "returned"]
    /\ UNCHANGED <<file, GLOBAL_CACHE, FILE_MTIME_CACHE, process_vars, index_vars>>

InitCache == CacheIdle /\ ProcessIdle /\ IndexIdle

NextCache ==
    \/ Write \/ CallLoadTags \/ Lookup \/ Stat \/ Compare
    \/ ReadLines \/ StoreLines \/ StampMtime \/ ReturnLines

SpecCache == InitCache /\ [][NextCache]_vars

-----------------------------------------------------------------------------
(* Renders that follow one another while the .yaml file is edited: each      *)
(* render makes its own TagLoader (nodes.py line 2066, nodes_lite.py line    *)
(* 55) and looks a tag up through load_tags(ALL_KEY) and build_index.        *)

\* process(): the next render constructs its TagLoader, with the
\* use_folder_paths setting of the moment
Construct(t) ==
    /\ loader[t].pc = "done"
    /\ \E setting \in IF variant = "full" THEN Settings ELSE {"False"} :
           loader' = [loader EXCEPT ![t] = NewLoader("start", setting)]
    /\ UNCHANGED <<variant, GLOBAL_INDEX, GLOBAL_INDEX_LITE, process_vars, cache_vars>>

InitRenders ==
    /\ ProcessIdle /\ CacheIdle
    /\ variant \in {"full", "lite"}
    /\ loader \in [{1} -> {NewLoader("start", u) : u \in Settings}]
    /\ variant = "lite" => loader[1].use_folder_paths = "False"
    /\ GLOBAL_INDEX = NewIndex /\ GLOBAL_INDEX_LITE = NewIndexLite

NextRenders == NextIndex \/ Write \/ \E t \in DOMAIN loader : Construct(t)

SpecRenders == InitRenders /\ [][NextRenders]_vars

-----------------------------------------------------------------------------
(* TagReplacer.replace_wildcard (nodes.py) called with a tag-group filter,   *)
(* the loader having indexed content 1 of the wildcard directory             *)

MaxGroups == 2

FilterGroups ==
    {<<"cat">>, <<"dog">>, <<"warm">>, <<"cold">>, <<"bird">>, <<" ", "cat", " ">>,
     <<"--", "cold">>, <<"--", "cat">>, <<"!", "cold">>,
     <<"cold", "|", "bird">>, <<"dog", "|", "warm">>,
     <<"cat", ",", "--", "cold">>, <<"cat", ",", "!", "cold">>, <<"$", "g">>}
GroupLists == UNION {[1..n -> FilterGroups] : n \in 1..MaxGroups}
\* [group1][group2]...
Bracketed(groups) == Join([i \in 1..Len(groups) |-> <<"[">> \o groups[i] \o <<"]">>], <<>>)
\* scope:[group]
Scoped(scope, groups) == <<scope, ":">> \o Bracketed(groups)
Filters ==
    {Bracketed(groups) : groups \in GroupLists}
        \cup {Scoped("one", <<group>>) : group \in {<<"cat">>, <<"bird">>}}
GroupVariables == {EmptyDict, Put(EmptyDict, "g", <<"--", "cold">>)}

\* what build_index leaves in the loader and in GLOBAL_INDEX
Scanned == [by |-> 1, use_folder_paths |-> "False", content |-> 1]

InitSelect ==
    /\ entry = "replace_wildcard" /\ pc = "start"
    /\ text \in Filters
    /\ variables \in GroupVariables
    /\ sel = [NewSelector EXCEPT !.variables = variables]
    /\ seed = 0 /\ stream = <<>> /\ run = 1
    /\ prompt = <<>> /\ previous_prompt = <<>> /\ iterations = 0 /\ prompt_history = <<>>
    /\ dyn = NewDynamic
    /\ replace_count = 0 /\ cond_iter = 0
    /\ exc = "" /\ result = NoResult /\ first_result = NoOutcome
    /\ file = [content |-> 1, mtime |-> 1]
    /\ GLOBAL_CACHE = <<>> /\ FILE_MTIME_CACHE = <<>> /\ call = NoCall
    /\ variant = "full"
    /\ loader = <<[NewLoader("done", "False") EXCEPT
                      !.files_index = Scanned, !.yaml_entries = Scanned, !.umi_tags = Scanned,
                      !.index_built = TRUE]>>
    /\ GLOBAL_INDEX = [built |-> TRUE, files |-> Scanned, entries |-> Scanned, tags |-> Scanned,
                       use_folder_paths |-> "False"]
    /\ GLOBAL_INDEX_LITE = NewIndexLite

\* replace_wildcard(matches) returns
ReplaceWildcard ==
    /\ entry = "replace_wildcard" /\ pc = "start"
    /\ \E o \in Outcomes(LAMBDA c : replace_wildcard(text, c)) :
         /\ prompt' = o.r.val
         /\ sel' = SelectorOf(o.r.c)
         /\ Commit(o.r.c, o.st, "done")
    /\ UNCHANGED <<entry, text, seed, run, previous_prompt, iterations, prompt_history,
                   replace_count, cond_iter, result, first_result>>
    /\ UNCHANGED <<index_vars, cache_vars>>

NextSelect == ReplaceWildcard

SpecSelect == InitSelect /\ [][NextSelect]_vars

-----------------------------------------------------------------------------
(* TagSelector.select (nodes.py) called again and again on one selector, as  *)
(* the replacers of one run call it                                          *)

MaxOtherSelections == 2

\* one.txt holds one entry, no file is named missing
GuardedTag == <<"one">>
OtherTag == <<"missing">>

InitGuard ==
    /\ entry = "select" /\ pc = "ready"
    /\ text = <<>>
    /\ variables = EmptyDict
    /\ sel = NewSelector
    /\ seed = 0 /\ stream = <<>> /\ run = 1
    /\ prompt = <<>> /\ previous_prompt = <<>> /\ iterations = 0 /\ prompt_history = <<>>
    /\ dyn = NewDynamic
    /\ replace_count = 0 /\ cond_iter = 0
    /\ exc = "" /\ result = NoResult /\ first_result = NoOutcome
    /\ IndexIdle /\ CacheIdle

\* select(tag) is called and returns
Select(tag) ==
    /\ entry = "select" /\ pc = "ready"
    /\ text' = tag
    /\ \E o \in Outcomes(LAMBDA c : select(tag, <<>>, c)) :
         /\ prompt' = o.r.val
         /\ sel' = SelectorOf(o.r.c)
         /\ Commit(o.r.c, o.st, "ready")
    /\ UNCHANGED <<entry, seed, run, previous_prompt, iterations, prompt_history,
                   replace_count, cond_iter, result, first_result>>
    /\ UNCHANGED <<index_vars, cache_vars>>

SelectGuarded == Select(GuardedTag)
SelectOther ==
    /\ Get(sel.previously_selected_tags, OtherTag, 0) < MaxOtherSelections
    /\ Select(OtherTag)

NextGuard == SelectGuarded \/ SelectOther

SpecGuard == InitGuard /\ [][NextGuard]_vars

-----------------------------------------------------------------------------
(* VariableReplacer.replace_variables (shared_utils.py) called alone on a    *)
(* text holding one ${name|fallbacks} or one coalesce(arguments)             *)

MaxArgs == 3

\* a fallback or an argument: its text, and the variable it names or the
\* literal it stands for
VarArg(name) == [src |-> <<"$", name>>, var |-> name, lit |-> <<>>]
LitArg(src, lit) == [src |-> src, var |-> "", lit |-> lit]
FallbackItems ==
    {VarArg("b"), LitArg(<<"fallback">>, <<"fallback">>), LitArg(<<"'", "q", "'">>, <<"q">>),
     LitArg(<<" ">>, <<>>)}
ArgItems == {VarArg("a"), VarArg("b"), LitArg(<<"\"", "lit", "\"">>, <<"lit">>)}
ArgLists(items) == UNION {[1..n -> items] : n \in 1..MaxArgs}
Sources(items) == [i \in 1..Len(items) |-> items[i].src]
DefaultRef(name, items) == <<"$", "{", name, "|">> \o Join(Sources(items), <<"|">>) \o <<"}">>
CoalesceCall(items) == <<"coalesce", "(">> \o Join(Sources(items), <<",">>) \o <<")">>
DefaultNames == {"a", "missing"}
Before == {<<>>, <<"x", " ">>}
VariableTexts ==
    {prefix \o DefaultRef(name, items) :
        prefix \in Before, name \in DefaultNames, items \in ArgLists(FallbackItems)}
      \cup {prefix \o CoalesceCall(items) : prefix \in Before, items \in ArgLists(ArgItems)}
\* a and b unset, blank or set
SetValue == [a |-> <<"va">>, b |-> <<"vb">>]
VariableValues ==
    {V \in UNION {[D -> {<<" ">>, <<"va">>, <<"vb">>}] : D \in SUBSET {"a", "b"}} :
        \A n \in DOMAIN V : V[n] = <<" ">> \/ V[n] = SetValue[n]}

InitVariables ==
    /\ entry = "replace_variables" /\ pc = "start"
    /\ text \in VariableTexts
    /\ variables \in VariableValues
    /\ sel = NewSelector
    /\ seed = 0 /\ stream = <<>> /\ run = 1
    /\ prompt = <<>> /\ previous_prompt = <<>> /\ iterations = 0 /\ prompt_history = <<>>
    /\ dyn = NewDynamic
    /\ replace_count = 0 /\ cond_iter = 0
    /\ exc = "" /\ result = NoResult /\ first_result = NoOutcome
    /\ IndexIdle /\ CacheIdle

\* replace_variables(text) returns; line 1283 leaves self.variables as it was
ReplaceVariables ==
    /\ entry = "replace_variables" /\ pc = "start"
    /\ prompt' = replace_variables(text, variables)
    /\ pc' = "done"
    /\ UNCHANGED <<entry, text, seed, stream, run, previous_prompt, iterations, prompt_history,
                   variables, sel, dyn, replace_count, cond_iter, exc, result, first_result>>
    /\ UNCHANGED <<index_vars, cache_vars>>

NextVariables == ReplaceVariables

SpecVariables == InitVariables /\ [][NextVariables]_vars

-----------------------------------------------------------------------------
(* replace_functions called on [clean:content], and again on what it       *)
(* returned                                                                  *)

MaxContent == 6

CleanTokens == {"a", " ", ","}
CleanContents == UNION {[1..n -> CleanTokens] : n \in 0..MaxContent}
CleanTag(content) == <<"[", "clean", ":">> \o content \o <<"]">>

InitClean ==
    /\ entry = "clean" /\ pc = "start"
    /\ text \in CleanContents
    /\ variables = EmptyDict
    /\ sel = NewSelector
    /\ seed = 0 /\ stream = <<>> /\ run = 1
    /\ prompt = <<>> /\ previous_prompt = <<>> /\ iterations = 0 /\ prompt_history = <<>>
    /\ dyn = NewDynamic
    /\ replace_count = 0 /\ cond_iter = 0
    /\ exc = "" /\ result = NoResult /\ first_result = NoOutcome
    /\ IndexIdle /\ CacheIdle

\* replace_functions('[clean:' + content + ']') returns
CleanCall(at, content, next_pc) ==
    /\ entry = "clean" /\ pc = at
    /\ prompt' = replace_functions(CleanTag(content), Ctx(AnyStream, 1))
    /\ previous_prompt' = prompt
    /\ pc' = next_pc
    /\ UNCHANGED <<entry, text, seed, stream, run, iterations, prompt_history,
                   variables, sel, dyn, replace_count, cond_iter, exc, result, first_result>>
    /\ UNCHANGED <<index_vars, cache_vars>>

Clean == CleanCall("start", text, "cleaned")
CleanAgain == CleanCall("cleaned", prompt, "again")

NextClean == Clean \/ CleanAgain

SpecClean == InitClean /\ [][NextClean]_vars

-----------------------------------------------------------------------------
(* replace_combinations called on a percentage block, for each output of    *)
(* random() the draws stand for                                              *)

MaxOptions == 3

\* what an option is written with before its text: nothing, or a percentage
Percentages == {"", "0", "35", "70", "100", "150"}

OptionText(i) == <<"opt" \o ToString(i)>>
OptionPart(p, i) == IF p = "" THEN OptionText(i) ELSE <<p, "%">> \o OptionText(i)

\* the blocks: two options or more, one at least with a percentage and two at
\* most without
PercentBlocks ==
    {ps \in UNION {[1..n -> Percentages] : n \in 2..MaxOptions} :
       /\ \E i \in DOMAIN ps : ps[i] # ""
       /\ Cardinality({i \in DOMAIN ps : ps[i] = ""}) <= 2}

BlockContent(ps) == Join([i \in DOMAIN ps |-> OptionPart(ps[i], i)], <<"|">>)

InitPercent ==
    /\ entry = "replace_combinations" /\ pc = "start"
    /\ \E ps \in PercentBlocks : text = BlockContent(ps)
    /\ stream \in {st \in [1..StreamLen -> 0..(Len(RandomValues) - 1)] :
                     \A i \in 1..StreamLen : st[i] = st[1]}
    /\ variables = EmptyDict
    /\ sel = NewSelector
    /\ seed = 0 /\ run = 1
    /\ prompt = <<>> /\ previous_prompt = <<>> /\ iterations = 0 /\ prompt_history = <<>>
    /\ dyn = NewDynamic
    /\ replace_count = 0 /\ cond_iter = 0
    /\ exc = "" /\ result = NoResult /\ first_result = NoOutcome
    /\ IndexIdle /\ CacheIdle

\* replace_combinations(match) returns
ReplaceCombinations ==
    /\ entry = "replace_combinations" /\ pc = "start"
    /\ \E o \in Outcomes(LAMBDA c : replace_combinations(text, c)) :
         /\ prompt' = o.r.text
         /\ Commit(o.r.c, o.st, "done")
    /\ UNCHANGED <<entry, text, seed, run, previous_prompt, iterations, prompt_history,
                   sel, replace_count, cond_iter, result, first_result>>
    /\ UNCHANGED <<index_vars, cache_vars>>

NextPercent == ReplaceCombinations

SpecPercent == InitPercent /\ [][NextPercent]_vars

-----------------------------------------------------------------------------
(* Lines 2037-2051 of process() on a template that holds a seed-memoized    *)
(* reference or a tag reference                                              *)

MaxAround == 2

SeededRef == <<"__", "#", "1", "$$", "one", "__">>
TagRef == <<"<", "#", "tag", ">">>

AroundTokens == {"a", " ", "\n", "#", "//"}
Around == UNION {[1..n -> AroundTokens] : n \in 0..MaxAround}
CommentTexts == {a \o ref \o b : a \in Around, b \in Around, ref \in {SeededRef, TagRef}}

InitComments ==
    /\ entry = "strip_comments" /\ pc = "start"
    /\ text \in CommentTexts
    /\ variables = EmptyDict
    /\ sel = NewSelector
    /\ seed = 0 /\ stream = <<>> /\ run = 1
    /\ prompt = <<>> /\ previous_prompt = <<>> /\ iterations = 0 /\ prompt_history = <<>>
    /\ dyn = NewDynamic
    /\ replace_count = 0 /\ cond_iter = 0
    /\ exc = "" /\ result = NoResult /\ first_result = NoOutcome
    /\ IndexIdle /\ CacheIdle

\* lines 2037-2051: the text the expansion loop starts from
StripComments ==
    /\ entry = "strip_comments" /\ pc = "start"
    /\ prompt' = strip_comments(text)
    /\ pc' = "done"
    /\ UNCHANGED <<entry, text, seed, stream, run, previous_prompt, iterations, prompt_history,
                   variables, sel, dyn, replace_count, cond_iter, exc, result, first_result>>
    /\ UNCHANGED <<index_vars, cache_vars>>

NextComments == StripComments

SpecComments == InitComments /\ [][NextComments]_vars

-----------------------------------------------------------------------------
(* process() called once on templates that hold escaped wildcard openers *)

EscapedWildcard(name) == <<"\\", "__", name, "\\", "__">>
EscapedAngle(name) == <<"\\", "<", name, ">">>

EscapeItems == {EscapedWildcard("one"), EscapedAngle("one"), Word("cat"), Word("dog")}
EscapeTemplates == {Listed(items) : items \in ItemLists(EscapeItems)}

InitEscape ==
    /\ entry = "process" /\ pc = "start"
    /\ text \in EscapeTemplates
    /\ seed = 0
    /\ stream = <<>>
    /\ run = 1
    /\ prompt = <<>> /\ previous_prompt = <<>> /\ iterations = 0 /\ prompt_history = <<>>
    /\ variables = EmptyDict
    /\ sel = NewSelector /\ dyn = NewDynamic
    /\ replace_count = 0 /\ cond_iter = 0
    /\ exc = "" /\ result = NoResult /\ first_result = NoOutcome
    /\ IndexIdle /\ CacheIdle

SpecEscape == InitEscape /\ [][NextRender]_vars

-----------------------------------------------------------------------------
(* process() called once on templates that select YAML entries by tag and   *)
(* use the yaml_ variables, the loader having indexed content 1 of the      *)
(* wildcard directory                                                        *)

TagFilter(group) == <<"<">> \o Bracketed(<<group>>) \o <<">">>
VariableUse(name) == <<"$", name>>

YamlItems ==
    {TagFilter(<<"warm">>), TagFilter(<<"cat">>), VariableUse("yaml_title"),
     VariableUse("yaml_tags"), Word("cat")}
YamlTemplates == {Listed(items) : items \in ItemLists(YamlItems)}

InitYaml ==
    /\ entry = "process" /\ pc = "start"
    /\ text \in YamlTemplates
    /\ variables = EmptyDict
    /\ sel = NewSelector
    /\ seed = 0 /\ stream = <<>> /\ run = 1
    /\ prompt = <<>> /\ previous_prompt = <<>> /\ iterations = 0 /\ prompt_history = <<>>
    /\ dyn = NewDynamic
    /\ replace_count = 0 /\ cond_iter = 0
    /\ exc = "" /\ result = NoResult /\ first_result = NoOutcome
    /\ file = [content |-> 1, mtime |-> 1]
    /\ GLOBAL_CACHE = <<>> /\ FILE_MTIME_CACHE = <<>> /\ call = NoCall
    /\ variant = "full"
    /\ loader = <<[NewLoader("done", "False") EXCEPT
                      !.files_index = Scanned, !.yaml_entries = Scanned, !.umi_tags = Scanned,
                      !.index_built = TRUE]>>
    /\ GLOBAL_INDEX = [built |-> TRUE, files |-> Scanned, entries |-> Scanned, tags |-> Scanned,
                       use_folder_paths |-> "False"]
    /\ GLOBAL_INDEX_LITE = NewIndexLite

SpecYaml == InitYaml /\ [][NextRender]_vars

-----------------------------------------------------------------------------
(* store_variables called once on texts made of assignments, [if] blocks    *)
(* that hold an assignment, and separators                                   *)

MaxParts == 4

OutsideAssignment == <<"$", "x", "=", "a">>
InsideAssignment == <<"$", "y", "=", "1">>
CondBlock == <<"[", "if", " ", "c", ":", " ">> \o InsideAssignment \o <<"]">>

StoreParts == {OutsideAssignment, CondBlock, <<";">>, <<" ">>, <<"\n">>, <<"b">>}
StoreTexts == {Join(parts, <<>>) : parts \in UNION {[1..n -> StoreParts] : n \in 1..MaxParts}}

InitStore ==
    /\ entry = "store_variables" /\ pc = "start"
    /\ text \in StoreTexts
    /\ variables = EmptyDict
    /\ sel = NewSelector
    /\ seed = 0 /\ stream = <<>> /\ run = 1
    /\ prompt = <<>> /\ previous_prompt = <<>> /\ iterations = 0 /\ prompt_history = <<>>
    /\ dyn = NewDynamic
    /\ replace_count = 0 /\ cond_iter = 0
    /\ exc = "" /\ result = NoResult /\ first_result = NoOutcome
    /\ IndexIdle /\ CacheIdle

\* store_variables(text, tag_replacer, dynamic_replacer) returns
StoreVariables ==
    /\ entry = "store_variables" /\ pc = "start"
    /\ \E o \in Outcomes(LAMBDA c : store_variables(text, c)) :
         /\ prompt' = o.r.text
         /\ sel' = SelectorOf(o.r.c)
         /\ Commit(o.r.c, o.st, "done")
    /\ UNCHANGED <<entry, text, seed, run, previous_prompt, iterations, prompt_history,
                   replace_count, cond_iter, result, first_result>>
    /\ UNCHANGED <<index_vars, cache_vars>>

NextStore == StoreVariables

SpecStore == InitStore /\ [][NextStore]_vars

-----------------------------------------------------------------------------
(* process() called once on templates whose wildcard references and choice  *)
(* blocks stand in the branches of [if] blocks, the loader having indexed    *)
(* content 1 of the wildcard directory                                       *)

MaxBranches == 2

\* [if cond: yes] and [if cond: yes | no]
IfThen(cond, yes) == <<"[", "if", " ">> \o cond \o <<":", " ">> \o yes \o <<"]">>
IfThenElse(cond, yes, no) ==
    <<"[", "if", " ">> \o cond \o <<":", " ">> \o yes \o <<" ", "|", " ">> \o no \o <<"]">>

\* the template starts with the word cat and sets no variable: the first
\* condition holds, the second does not
TrueCond == <<"cat">>
FalseCond == <<"$", "u", "==", "yes">>

References == {<<"__", "one", "__">>, <<"{", "a", "|", "b", "}">>, TagFilter(<<"warm">>)}

\* blocks that hold a reference in a branch that is not taken
UntakenBlocks ==
    {IfThen(FalseCond, ref) : ref \in References}
        \cup {IfThenElse(TrueCond, <<"x">>, ref) : ref \in References}
\* blocks that hold a reference in the branch that is taken
TakenBlocks == {IfThen(TrueCond, ref) : ref \in References}

BlockLists(blocks) == UNION {[1..n -> blocks] : n \in 1..MaxBranches}
BranchTemplate(blocks) == Listed(<<Word("cat")>> \o blocks)
UntakenTemplates == {BranchTemplate(blocks) : blocks \in BlockLists(UntakenBlocks)}
BranchTemplates == {BranchTemplate(blocks) : blocks \in BlockLists(UntakenBlocks \cup TakenBlocks)}

InitBranches ==
    /\ entry = "process" /\ pc = "start"
    /\ text \in BranchTemplates
    /\ variables = EmptyDict
    /\ sel = NewSelector
    /\ seed = 0 /\ stream = <<>> /\ run = 1
    /\ prompt = <<>> /\ previous_prompt = <<>> /\ iterations = 0 /\ prompt_history = <<>>
    /\ dyn = NewDynamic
    /\ replace_count = 0 /\ cond_iter = 0
    /\ exc = "" /\ result = NoResult /\ first_result = NoOutcome
    /\ file = [content |-> 1, mtime |-> 1]
    /\ GLOBAL_CACHE = <<>> /\ FILE_MTIME_CACHE = <<>> /\ call = NoCall
    /\ variant = "full"
    /\ loader = <<[NewLoader("done", "False") EXCEPT
                      !.files_index = Scanned, !.yaml_entries = Scanned, !.umi_tags = Scanned,
                      !.index_built = TRUE]>>
    /\ GLOBAL_INDEX = [built |-> TRUE, files |-> Scanned, entries |-> Scanned, tags |-> Scanned,
                       use_folder_paths |-> "False"]
    /\ GLOBAL_INDEX_LITE = NewIndexLite

NextBranches == Begin \/ Iterate \/ Expand \/ Conditional \/ ConditionalReturn \/ Capture \/ Return

SpecBranches == InitBranches /\ [][NextBranches]_vars

-----------------------------------------------------------------------------
(* process() called once on templates made of seed-memoized references *)

MaxReferences == 2

\* __#s$$name__ and <#s$$name>
SeededWildcard(s, name) == <<"__", "#", s, "$$", name, "__">>
SeededTag(s, name) == <<"<", "#", s, "$$", name, ">">>

SeedTokens == {"1", "2"}
SeededNames == {"one", "two"}
SeededReferences ==
    {SeededWildcard(s, name) : s \in SeedTokens, name \in SeededNames}
        \cup {SeededTag(s, name) : s \in SeedTokens, name \in SeededNames}
ReferenceLists == UNION {[1..n -> SeededReferences] : n \in 1..MaxReferences}
SeededTemplates == {Listed(refs) : refs \in ReferenceLists}

InitSeeded ==
    /\ entry = "process" /\ pc = "start"
    /\ text \in SeededTemplates
    /\ seed = 0
    /\ stream = <<>>
    /\ run = 1
    /\ prompt = <<>> /\ previous_prompt = <<>> /\ iterations = 0 /\ prompt_history = <<>>
    /\ variables = EmptyDict
    /\ sel = NewSelector /\ dyn = NewDynamic
    /\ replace_count = 0 /\ cond_iter = 0
    /\ exc = "" /\ result = NoResult /\ first_result = NoOutcome
    /\ IndexIdle /\ CacheIdle

SpecSeeded == InitSeeded /\ [][NextRender]_vars

-----------------------------------------------------------------------------
(* LogicEvaluator(expression, variables).evaluate(context) called once on an *)
(* operand under no, one, two or three negations                             *)

MaxNegations == 3

\* NOT ... NOT x and !...!x with n negations, and NOT (NOT x)
RECURSIVE Nots(_, _)
Nots(n, x) == IF n = 0 THEN x ELSE <<"NOT", " ">> \o Nots(n - 1, x)
RECURSIVE Bangs(_, _)
Bangs(n, x) == IF n = 0 THEN x ELSE <<"!">> \o Bangs(n - 1, x)
NotOfGroup(x) == <<"NOT", " ", "(", "NOT", " ">> \o x \o <<")">>

Operands ==
    {<<"a">>, <<"b">>, <<"$", "v">>, <<"(", "a", " ", "AND", " ", "b", ")">>,
     <<"(", "a", " ", "OR", " ", "c", ")">>}
NegationExpressions ==
    {Nots(n, x) : n \in 0..MaxNegations, x \in Operands}
        \cup {Bangs(n, x) : n \in 0..MaxNegations, x \in Operands}
        \cup {NotOfGroup(x) : x \in Operands}

InitNegation ==
    /\ entry = "evaluate" /\ pc = "start"
    /\ text \in NegationExpressions
    /\ prompt \in Contexts
    /\ variables \in VariableMaps
    /\ seed = 0 /\ stream = <<>> /\ run = 1
    /\ previous_prompt = <<>> /\ iterations = 0 /\ prompt_history = <<>>
    /\ sel = NewSelector /\ dyn = NewDynamic
    /\ replace_count = 0 /\ cond_iter = 0
    /\ exc = "" /\ result = NoResult /\ first_result = NoOutcome
    /\ IndexIdle /\ CacheIdle

SpecNegation == InitNegation /\ [][NextLogic]_vars

-----------------------------------------------------------------------------
(* Properties of process() and of ConditionalReplacer.replace *)

Contains(s, pat) == FindSeq(s, pat, 1) # 0
Returned == entry = "process" /\ pc = "done"

\* C1: two calls of process() with the same template, the same seed and
\* unchanged wildcard files return the same positive and the same negative
\* text, whether or not the template sets the trace or debug variables.
C1_Determinism ==
    (Returned /\ run = 2 /\ first_result.pc = "done") => result = first_result.result

\* C2: no exception propagates out of process(), whatever the template:
\* every call returns a (positive, negative) result.
C2_NoExceptionPropagates == entry = "process" => pc # "raised"

\* C3: the top-level loop runs at most 50 iterations, a wildcard pass
\* re-applies at most 10 times, ConditionalReplacer.replace makes at most 100
\* substitutions, the top-level loop is left as soon as the text is unchanged
\* or equals a text seen at the start of an earlier iteration, and every call
\* comes to its end: each of its steps lowers the number of steps it can
\* still take, which for each of the 50 iterations is at most three and the
\* 101 steps of the conditional loop.
C3_Caps == iterations <= 50 /\ replace_count <= 10 /\ cond_iter <= 100
C3_Seen == \E h \in 1..Len(prompt_history) : prompt_history[h] = prompt
C3_Exit ==
    (entry = "process" /\ pc = "loop" /\ (prompt = previous_prompt \/ C3_Seen)) => pc' = "done"
C3_Remaining ==
    CASE pc = "start" -> 104 * 50 + 2
      [] pc = "loop" -> 104 * (50 - iterations) + 1
      [] pc = "expand" -> 104 * (50 - iterations)
      [] pc = "conditional" -> 104 * (50 - iterations) - 1 - cond_iter
      [] pc = "capture" -> 104 * (50 - iterations) - 102
      [] OTHER -> 0
C3_Nearer == run' = run => C3_Remaining' < C3_Remaining
C3_BoundedTermination ==
    [](C3_Caps /\ C3_Remaining >= 0) /\ [][C3_Exit /\ C3_Nearer]_vars

\* a call that used all 50 iterations, its last wildcard pass all 10
\* re-applications, has returned
C3_CapsReached == Returned /\ iterations = 50 /\ replace_count = 10

\* C4: a template that refers to a wildcard whose only entry refers to itself,
\* or to two single-entry wildcards that refer to each other, is rendered
\* within the caps without raising, and the text returned holds the
\* unexpanded __name__ token of the cycle, no error sentinel, and no more
\* text than the template.
CycleTemplates ==
    { <<"__", "itself", "__">>, <<"__", "a", "__">>,
      <<"__", "a", "__", " ", "and", " ", "__", "b", "__">> }
CycleNames == IF text = <<"__", "itself", "__">> THEN {"itself"} ELSE {"a", "b"}
C4_CycleTermination ==
    (entry = "process" /\ text \in CycleTemplates) =>
        /\ pc # "raised"
        /\ iterations <= 50 /\ replace_count <= 10
        /\ pc = "done" =>
             /\ \E name \in CycleNames : Contains(result.positive, <<"__", name, "__">>)
             /\ ~Has(result.positive, "WILDCARD_NOT_FOUND")
             /\ ~Has(result.positive, "ERROR_WILDCARD_NOT_FOUND")
             /\ Len(result.positive) <= Len(text)

\* the mutual cycle has been rendered
C4_CycleRendered ==
    Returned /\ text = <<"__", "a", "__">> /\ result.positive = <<"__", "a", "__">>

\* C5: ConditionalReplacer.replace puts exactly T1, T2 or E in the place of
\* [if C1: T1 | elif C2: T2 | else: E]: for the block
\* [if $x==yes: A | elif $x==no: B | else: C] it gives A when x is yes, B when
\* x is no and C when x is unset.
C5_Expected ==
    LET x == Get(variables, "x", <<>>)
    IN IF x = <<"yes">> THEN <<"A">> ELSE IF x = <<"no">> THEN <<"B">> ELSE <<"C">>
C5_ChainedConditional ==
    (entry = "conditional_replace" /\ text = IfElif /\ pc = "done") => prompt = C5_Expected

\* C6: for "$v = {a|b}" followed by "[if $v==a: X|Y]" the choice is drawn
\* exactly once, when the assignment is stored; the assignment is not part of
\* the output; v holds the drawn option; and the text returned is X when the
\* drawn option is a and Y otherwise.
AssignThenIf ==
    <<"$", "v", " ", "=", " ", "{", "a", "|", "b", "}", "\n",
      "[", "if", " ", "$", "v", "==", "a", ":", " ", "X", "|", "Y", "]">>
C6_Drawn == IF stream[1] % 2 = 0 THEN "a" ELSE "b"
C6_AssignThenConditional ==
    (entry = "process" /\ text = AssignThenIf) =>
        /\ pc # "raised"
        /\ dyn.rng <= 1 /\ sel.rng = 0
        /\ pc = "done" =>
             /\ dyn.rng = 1 /\ stream # <<>>
             /\ Get(variables, "v", <<>>) = <<C6_Drawn>>
             /\ ~Has(result.positive, "=") /\ ~Has(result.positive, "$")
             /\ ~Has(result.positive, "{")
             /\ result.positive = IF C6_Drawn = "a" THEN <<"X">> ELSE <<"Y">>

\* option a was drawn and X returned
C6_DrewA ==
    Returned /\ text = AssignThenIf /\ Get(variables, "v", <<>>) = <<"a">>
        /\ result.positive = <<"X">>

\* C7: within one call every occurrence of __#s$$name__ with the same seed
\* token and name is resolved, and all of them to the same entry of name.
SeedTwice ==
    <<"__", "#", "1", "$$", "one", "__", " ", "and", " ", "__", "#", "1", "$$", "one", "__">>
C7_SeedMemoized ==
    (entry = "process" /\ text = SeedTwice) =>
        /\ pc # "raised"
        /\ pc = "done" =>
             \E k \in 1..Len(read_file_lines("one")) :
                 result.positive = read_file_lines("one")[k] \o <<" ", "and", " ">>
                                     \o read_file_lines("one")[k]

\* C8: a reference to a name without a source leaves [WILDCARD_NOT_FOUND: name]
\* in the positive text returned, or <<ERROR_WILDCARD_NOT_FOUND:name>> when
\* fail_fast is set, and once the sentinel is in the text at the start of an
\* iteration of the loop, it is in the text of every later iteration.
Missing == <<"__", "missing", "__">>
MissingFailFast == <<"$", "fail_fast", " ", "=", " ", "1", "\n", "__", "missing", "__">>
C8_Sentinel ==
    IF text = Missing THEN <<"[", "WILDCARD_NOT_FOUND", ":", " ", "missing", "]">>
    ELSE <<"<", "<", "ERROR_WILDCARD_NOT_FOUND", ":", "missing", ">", ">">>
C8_SentinelSurfaces ==
    (entry = "process" /\ text \in {Missing, MissingFailFast}) =>
        /\ pc # "raised"
        /\ pc = "loop" =>
             \A h \in 1..Len(prompt_history) :
                 Contains(prompt_history[h], C8_Sentinel) => Contains(prompt, C8_Sentinel)
        /\ pc = "done" => Contains(result.positive, C8_Sentinel)

-----------------------------------------------------------------------------
(* Properties of the shared index and of the per-name cache *)

\* C9: a TagLoader whose build_index() has returned holds files, entries and
\* tags of one build, made under its own use_folder_paths setting, and the
\* shared index registers no entry twice for the same tag.
C9_OneBuild(t) ==
    /\ loader[t].files_index = loader[t].umi_tags
    /\ variant = "full" =>
         /\ loader[t].files_index = loader[t].yaml_entries
         /\ loader[t].files_index.use_folder_paths = loader[t].use_folder_paths
C9_IndexAtomicity ==
    /\ \A t \in DOMAIN loader : loader[t].pc = "done" => C9_OneBuild(t)
    /\ Len(GLOBAL_INDEX_LITE.entries) <= 1

\* C10: a load_tags(name) call during which the file is not written returns
\* the content the file has, and when it returns the cached list, the recorded
\* mtime is the file's mtime and the cached list the content written at that
\* mtime.
C10_CacheFreshness ==
    (call.pc = "returned" /\ call.started = file.mtime) =>
        /\ call.returned = file.content
        /\ call.from_cache =>
             /\ FILE_MTIME_CACHE = <<file.mtime>>
             /\ GLOBAL_CACHE = <<FILE_MTIME_CACHE[1]>>


\* C11: a tag lookup of a render that began after the last change of the
\* .yaml file is served from an index built from the content the file has now.
C11_Looked(t) == loader[t].pc = "done" /\ loader[t].started = file.mtime
C11_IndexFollowsFile ==
    \A t \in DOMAIN loader :
        C11_Looked(t) =>
            IF variant = "full" THEN loader[t].yaml_entries.content = file.content
            ELSE loader[t].umi_tags.content = file.content


-----------------------------------------------------------------------------
(* Properties of the negative prompt *)

\* the items of a listed text, in order
ItemsOf(s) == StripEach(Split(s, ","))
TagOf(item) == <<item[Len(item) - 1]>>

\* C12: for a template that lists words and **tag** spans, the positive text
\* returned holds no "**", it is the words of the template in their order
\* joined by ", ", and every tag of a span is an item of the negative text.
C12_Listed == text \in {Listed(items) : items \in ItemLists(PositiveItems \cup NegativeItems)}
C12_Spans == {<<"**", text[i + 1], "**">> : i \in {i \in 1..(Len(text) - 2) : text[i] = "**" /\ text[i + 2] = "**"}}
C12_InlineNegatives ==
    (Returned /\ C12_Listed) =>
        /\ ~Has(result.positive, "**")
        /\ result.positive = Listed(Keep(ItemsOf(text), PositiveItems))
        /\ \A span \in C12_Spans :
             \E i \in 1..Len(ItemsOf(result.negative)) : ItemsOf(result.negative)[i] = TagOf(span)

\* C13: for a template that lists words and "--neg: tag" markers, the
\* positive text returned holds no "--neg:" marker and the tag of every
\* marker is part of the negative text.
C13_Listed == text \in {Listed(items) : items \in ItemLists(PositiveItems \cup MarkerItems)}
C13_NegMarkers ==
    (Returned /\ C13_Listed /\ Has(text, "--neg:")) =>
        /\ ~Has(result.positive, "--neg:")
        /\ Has(result.negative, "blurry")


-----------------------------------------------------------------------------
(* Properties of LogicEvaluator *)

Evaluated == entry = "evaluate" /\ pc = "done"
Holds(operand) == Has(prompt, operand)

\* C14: an expression that is not well-formed (an operator without an
\* operand, two operands without an operator, an unbalanced parenthesis, an
\* empty expression, an invalid MATCHES pattern) evaluates to false for every
\* context and every variable map.
C14_MalformedIsFalse == (Evaluated /\ text \in Malformed) => result.value = FALSE


Xor(p, q) == p # q
C15_Result(expression, value) == (Evaluated /\ text = expression) => result.value = value

\* C15 as stated: XOR binds tighter than OR and NOR, so a OR b XOR c is
\* a OR (b XOR c) and a NOR b XOR c is a NOR (b XOR c).
C15_XorBindsTighter ==
    /\ C15_Result(Flat("OR", "XOR"), Holds("a") \/ Xor(Holds("b"), Holds("c")))
    /\ C15_Result(Flat("NOR", "XOR"), ~(Holds("a") \/ Xor(Holds("b"), Holds("c"))))

\* C15 amended: XOR, OR and NOR have one precedence and group from the left,
\* so a OR b XOR c is (a OR b) XOR c, a NOR b XOR c is (a NOR b) XOR c, and
\* a XOR b OR c is (a XOR b) OR c.
C15_XorGroupsFromLeft ==
    /\ C15_Result(Flat("OR", "XOR"), Xor(Holds("a") \/ Holds("b"), Holds("c")))
    /\ C15_Result(Flat("NOR", "XOR"), Xor(~(Holds("a") \/ Holds("b")), Holds("c")))
    /\ C15_Result(Flat("XOR", "OR"), Xor(Holds("a"), Holds("b")) \/ Holds("c"))
    /\ C15_Result(Flat("XOR", "NOR"), ~(Xor(Holds("a"), Holds("b")) \/ Holds("c")))

\* a OR b XOR c has been evaluated with a, b and c true, where the two
\* groupings differ, and is false
C15_GroupingsDiffer ==
    /\ Evaluated /\ text = Flat("OR", "XOR")
    /\ Holds("a") /\ Holds("b") /\ Holds("c")
    /\ result.value = FALSE


C16_Result(expression, value) == (Evaluated /\ text = expression) => result.value = value

\* C16: NOT binds tighter than AND, and AND tighter than OR: NOT a AND b is
\* (NOT a) AND b, a OR b AND c is a OR (b AND c), a AND b OR c is
\* (a AND b) OR c; and a parenthesized subexpression is evaluated as one
\* operand, whatever the operators inside and around it.
C16_Precedence ==
    /\ C16_Result(Negated("AND"), ~Holds("a") /\ Holds("b"))
    /\ C16_Result(Flat("OR", "AND"), Holds("a") \/ (Holds("b") /\ Holds("c")))
    /\ C16_Result(Flat("AND", "OR"), (Holds("a") /\ Holds("b")) \/ Holds("c"))
    /\ \A op1 \in BoolOps, op2 \in BoolOps :
         /\ C16_Result(GroupLeft(op1, op2), Binary(op2, Binary(op1, Holds("a"), Holds("b")), Holds("c")))
         /\ C16_Result(GroupRight(op1, op2), Binary(op1, Holds("a"), Binary(op2, Holds("b"), Holds("c"))))
    /\ \A op \in BoolOps : C16_Result(NegatedGroup(op), ~Binary(op, Holds("a"), Holds("b")))

\* a OR b AND c has been evaluated with only a true, where grouping from the
\* left would give false, and is true
C16_PrecedenceDecides ==
    /\ Evaluated /\ text = Flat("OR", "AND")
    /\ Holds("a") /\ ~Holds("b") /\ ~Holds("c")
    /\ result.value = TRUE


-----------------------------------------------------------------------------
(* Properties of replace_functions *)

\* C17: [assert:COND|label] is replaced by the sentinel <<ERROR_ASSERT:label>>
\* when COND evaluates false against the text and the variables, and by the
\* empty string when it evaluates true, whatever the condition, the label and
\* the blanks around the bar; the text around the tag is kept.
C17_Sentinel(label) == <<"<", "<", "ERROR_ASSERT", ":">> \o label \o <<">", ">">>
C17_AssertSentinel ==
    (entry = "replace_functions" /\ pc = "done") =>
        \A prefix \in Prefixes, cond \in Conditions, sep \in LabelSeparators, label \in Labels :
            text = prefix \o AssertTag(cond, sep, label) =>
                prompt = prefix \o (IF evaluate(cond, sel.variables, text) THEN <<>>
                                    ELSE C17_Sentinel(label))


-----------------------------------------------------------------------------
(* Properties of tag-group filtering *)

Selected == entry = "replace_wildcard" /\ pc = "done"
\* what selecting an entry returns: one of its prompts, or its title
OutputsOf(e) == IF e.prompts # <<>> THEN Range(e.prompts) ELSE {e.key}
NoMatches(groups) == <<"[", "NO_MATCHES", ":", " ">> \o Join(groups, <<" ">>) \o <<"]">>
\* the result is a prompt of an entry that qualifies, the sentinel if none does
C18_Result(groups, Qualifies(_)) ==
    IF \E i \in 1..Len(yaml_entries) : Qualifies(Range(yaml_entries[i].tags))
    THEN \E i \in 1..Len(yaml_entries) :
            /\ Qualifies(Range(yaml_entries[i].tags))
            /\ prompt \in OutputsOf(yaml_entries[i])
    ELSE prompt = NoMatches(groups)

\* the groups of a filter read as a comma-separated list, as the claim writes
\* them, a group naming a set variable standing for its value
C18_ListedGroups(groups) ==
    resolved_groups(StripEach(Split(Join(groups, <<",">>), ",")), sel.variables)
C18_QualifiesAsStated(tag_set, listed) ==
    \A i \in 1..Len(listed) :
        IF Has(listed[i], "|")
        THEN \E y \in Range(Split(listed[i], "|")) : Strip(y) \in tag_set
        ELSE IF listed[i] # <<>> /\ listed[i][1] \in {"!", "--"}
        THEN Strip(Tail(listed[i])) \notin tag_set
        ELSE listed[i] \in tag_set

\* C18: for a tag-group filter, the entry returned by the selector carries
\* every required tag, none of the tags negated with ! or --, and at least one
\* tag of every a|b group, the groups being those between the commas and the
\* brackets of the filter; when no entry qualifies the result is the sentinel
\* [NO_MATCHES: ...].
C18_TagGroupFilter ==
    Selected =>
        \A groups \in GroupLists :
            text = Bracketed(groups) =>
                C18_Result(groups, LAMBDA tag_set :
                    C18_QualifiesAsStated(tag_set, C18_ListedGroups(groups)))

\* one group per bracket pair: --tag negates, a|b is an any-of group, and any
\* other group, a !tag or a comma list too, is one required tag
C18_Qualifies(tag_set, groups) ==
    \A i \in 1..Len(groups) :
        IF Has(groups[i], "|")
        THEN \E y \in Range(Split(groups[i], "|")) : Strip(y) \in tag_set
        ELSE IF groups[i] # <<>> /\ groups[i][1] = "--"
        THEN Strip(Tail(groups[i])) \notin tag_set
        ELSE groups[i] \in tag_set

\* C18, amended: for a filter [group1][--group2][a|b] with no scope before
\* it, one group per bracket pair, the entry returned by the selector carries
\* every required tag, none of the tags negated with --, and at least one tag
\* of every a|b group; a group that starts with ! or holds commas is a
\* required tag as written; when no entry qualifies the result is the
\* sentinel [NO_MATCHES: ...] with the groups joined by blanks.
C18_BracketGroupFilter ==
    Selected =>
        \A groups \in GroupLists :
            text = Bracketed(groups) =>
                C18_Result(groups, LAMBDA tag_set :
                    C18_Qualifies(tag_set, resolved_groups(groups, sel.variables)))

\* [cat][--cold] has been selected from and the prompt of the one cat that is
\* not cold came back
C18_NegatedGroupExcluded ==
    /\ Selected /\ text = Bracketed(<< <<"cat">>, <<"--", "cold">> >>)
    /\ prompt = <<"ruby">>
    /\ sel.variables["yaml_title"] = <<"red", " ", "cat">>


-----------------------------------------------------------------------------
(* Properties of the loop guard of select *)

LoopError(tag) == <<"LOOP_ERROR", "(">> \o tag \o <<")">>
Selections(tag) == Get(sel.previously_selected_tags, tag, 0)

\* C19: once a tag has been selected 500 times, every further select call
\* for that tag returns LOOP_ERROR(tag) without loading or choosing a
\* candidate, and leaves the counters of the other tags as they are; a call
\* for another tag returns that tag's own result.
C19_LoopGuard ==
    [][/\ (SelectGuarded /\ Selections(GuardedTag) >= 500) =>
            /\ prompt' = LoopError(GuardedTag)
            /\ sel'.rng = sel.rng /\ sel'.used_values = sel.used_values
            /\ Selections(OtherTag)' = Selections(OtherTag)
       /\ SelectOther =>
            /\ prompt' = NotFound(OtherTag, Ctx(<<>>, 1))
            /\ Selections(GuardedTag)' = Selections(GuardedTag)]_vars


-----------------------------------------------------------------------------
(* Properties of replace_variables *)

Replaced == entry = "replace_variables" /\ pc = "done"
NonBlank(value) == Strip(value) # <<>>
ArgValue(item) == IF item.var # "" THEN Get(variables, item.var, <<>>) ELSE item.lit
FirstNonBlank(items) ==
    LET S == {i \in 1..Len(items) : NonBlank(ArgValue(items[i]))}
    IN IF S = {} THEN <<>> ELSE ArgValue(items[MinOf(S)])

\* C20: ${name|f1|...|fn} yields the value of name when name is set and not
\* blank, otherwise the first fallback that is not blank, a fallback being
\* $other or a literal, otherwise the empty string; coalesce(a1,...,an)
\* yields the value of its first argument that is not blank.  The text
\* before the reference is kept.
C20_FallbackAndCoalesce ==
    Replaced =>
        \A prefix \in Before :
            /\ \A name \in DefaultNames, items \in ArgLists(FallbackItems) :
                  text = prefix \o DefaultRef(name, items) =>
                      prompt = prefix \o (IF NonBlank(Get(variables, name, <<>>))
                                          THEN variables[name] ELSE FirstNonBlank(items))
            /\ \A items \in ArgLists(ArgItems) :
                  (text = prefix \o CoalesceCall(items) /\ NonBlank(FirstNonBlank(items))) =>
                      prompt = prefix \o FirstNonBlank(items)

\* coalesce($a,$b,"lit") has been replaced with only b set, by the value of b
C20_CoalesceTakesSecond ==
    /\ Replaced
    /\ text = CoalesceCall(<<VarArg("a"), VarArg("b"), LitArg(<<"\"", "lit", "\"">>, <<"lit">>)>>)
    /\ DOMAIN variables = {"b"} /\ NonBlank(variables["b"])
    /\ prompt = variables["b"]


-----------------------------------------------------------------------------
(* Properties of [clean:] *)

\* C21: for every content x, cleaning the cleaned content changes nothing:
\* clean(clean(x)) = clean(x).
C21_CleanIdempotent ==
    (entry = "clean" /\ pc = "again") => prompt = previous_prompt


-----------------------------------------------------------------------------
(* C22 *)

\* the percentage an option is written with
Explicit(p) == PercentValues[CHOOSE i \in 1..Len(PercentTokens) : PercentTokens[i] = p]

\* the sum of the percentages the block is written with
RECURSIVE ExplicitTotal(_, _)
ExplicitTotal(ps, i) ==
    IF i = 0 THEN 0
    ELSE ExplicitTotal(ps, i - 1) + (IF ps[i] = "" THEN 0 ELSE Explicit(ps[i]))

\* option i has an effective share of 0: an explicit 0%, or no percentage
\* while the explicit ones sum to 100 or more
ZeroShare(ps, i) == ps[i] = "0" \/ (ps[i] = "" /\ ExplicitTotal(ps, Len(ps)) >= 100)

\* option i has an effective share of 100: every other option has share 0,
\* and option i has 100% or more, or is the one option to get the whole 100
FullShare(ps, i) ==
    /\ \A j \in DOMAIN ps : j # i => ZeroShare(ps, j)
    /\ \/ ps[i] # "" /\ Explicit(ps[i]) >= 100
       \/ ps[i] = "" /\ ExplicitTotal(ps, Len(ps)) = 0

\* the roll of the call: random() * 100
Roll == float_mul(RandomValues[stream[1] + 1], Float(100))

\* the block the call was made on
Block == CHOOSE ps \in PercentBlocks : text = BlockContent(ps)

Rolled == entry = "replace_combinations" /\ pc = "done"

\* C22: whatever the roll, replace_combinations returns no option whose
\* effective share is 0 and returns the option whose share is 100; when the
\* explicit shares total less than 100 and every option has one, a roll at or
\* beyond the total returns the empty string.
C22_PercentageChoice ==
    Rolled =>
      /\ \A i \in DOMAIN Block : ZeroShare(Block, i) => prompt # OptionText(i)
      /\ \A i \in DOMAIN Block : FullShare(Block, i) => prompt = OptionText(i)
      /\ (/\ ExplicitTotal(Block, Len(Block)) < 100
          /\ \A i \in DOMAIN Block : Block[i] # ""
          /\ ~float_lt(Roll, Float(ExplicitTotal(Block, Len(Block)))))
         => prompt = <<>>


-----------------------------------------------------------------------------
(* C23 *)

Stripped == entry = "strip_comments" /\ pc = "done"

\* the template holds no comment: no "//", and no "#" but the reference's
NoComment == ~Has(text, "//") /\ Cardinality({i \in 1..Len(text) : text[i] = "#"}) = 1

\* C23: a reference __#seed$$name__ or <#tag> of a template without comments
\* is in the text the expansion loop starts from, unchanged.
C23_ReferencesProtected ==
    (Stripped /\ NoComment) =>
      /\ FindSeq(text, SeededRef, 1) # 0 => FindSeq(prompt, SeededRef, 1) # 0
      /\ FindSeq(text, TagRef, 1) # 0 => FindSeq(prompt, TagRef, 1) # 0

\* the tag reference alone is kept
C23_TagReferenceProtected ==
    (Stripped /\ NoComment /\ FindSeq(text, TagRef, 1) # 0) => FindSeq(prompt, TagRef, 1) # 0


-----------------------------------------------------------------------------
(* C24 *)

\* C24: the escaped references \__one\__ and \<one> of a template are never
\* resolved: no selection is made in any iteration of the loop, and the text
\* process() returns holds the literal __one__ and <one>.
C24_EscapedStayLiteral ==
    /\ entry = "process" => DOMAIN sel.previously_selected_tags = {}
    /\ (Returned /\ FindSeq(text, EscapedWildcard("one"), 1) # 0)
         => FindSeq(result.positive, <<"__", "one", "__">>, 1) # 0
    /\ (Returned /\ FindSeq(text, EscapedAngle("one"), 1) # 0)
         => FindSeq(result.positive, <<"<", "one", ">">>, 1) # 0


-----------------------------------------------------------------------------
(* C25 *)

\* C25: once the wildcard pass has selected a YAML entry, yaml_title is a key
\* of the variable replacer's variables, and the text process() returns holds
\* no $yaml_title of a template that selects an entry: the title stands
\* there.
C25_YamlVariablesReachTemplate ==
    /\ (entry = "process" /\ pc = "conditional" /\ "yaml_title" \in DOMAIN sel.variables)
         => "yaml_title" \in DOMAIN variables
    /\ (Returned /\ Has(text, "<")) => FindSeq(result.positive, VariableUse("yaml_title"), 1) = 0


-----------------------------------------------------------------------------
(* C26 *)

StoreReturned == entry = "store_variables" /\ pc = "done"

\* the number of places of s where pat stands
Occurrences(s, pat) == Cardinality({i \in 1..Len(s) : Slice(s, i, i + Len(pat) - 1) = pat})

\* C26: store_variables stores no variable from the assignment inside an
\* [if] block and returns every block unchanged, and every assignment outside
\* the blocks is stored and removed from the text.
C26_ConditionalsUntouched ==
    StoreReturned =>
      /\ "y" \notin DOMAIN variables
      /\ Occurrences(prompt, CondBlock) = Occurrences(text, CondBlock)
      /\ Occurrences(text, OutsideAssignment) > 0
           => "x" \in DOMAIN variables /\ Occurrences(prompt, OutsideAssignment) = 0

\* what holds of every text: the assignment inside a block is not stored,
\* and the assignment outside is
C26_InsideNotStored ==
    StoreReturned =>
      /\ "y" \notin DOMAIN variables
      /\ Occurrences(text, OutsideAssignment) > 0
           => "x" \in DOMAIN variables /\ Occurrences(prompt, OutsideAssignment) = 0


-----------------------------------------------------------------------------
(* C27 *)

\* two.txt is a list source with two distinct candidates
ListTag == <<"two">>
ListCandidates == Range(read_file_lines("two"))

\* C27: the first n unseeded selections from a list of n >= 2 distinct
\* candidates return pairwise distinct candidates: once k <= n selections of
\* the name have been made, k of its candidates are used.
C27_NoRepeatUntilExhausted ==
    \A k \in 1..Cardinality(ListCandidates) :
        Selections(ListTag) = k => Cardinality(sel.used_values \cap ListCandidates) = k


-----------------------------------------------------------------------------
(* C28 *)

-----------------------------------------------------------------------------
(* C29 *)

\* the name a seed-memoized reference selects from
NameOfReference(ref) == ref[5]

\* C29: every seed-memoized reference of a template resolves to a candidate
\* of its own name's source, whatever names the seed token was used with
\* before: the render raises nothing, and the text returned lists one
\* candidate of each reference's name.
C29_SeedWithinSource ==
    entry = "process" =>
      /\ pc # "raised"
      /\ Returned =>
           \A refs \in ReferenceLists :
               text = Listed(refs) =>
                   \E picks \in [1..Len(refs) -> 1..2] :
                       /\ \A i \in 1..Len(refs) :
                              picks[i] <= Len(read_file_lines(NameOfReference(refs[i])))
                       /\ result.positive =
                            Listed([i \in 1..Len(refs) |->
                                      read_file_lines(NameOfReference(refs[i]))[picks[i]]])


-----------------------------------------------------------------------------
(* C30 *)

\* C30: NOT NOT x and !!x evaluate to what x evaluates to, for every operand,
\* context and variable map.
C30_DoubleNegation ==
    \A x \in Operands :
        (Evaluated /\ text \in {Nots(2, x), Bangs(2, x)})
            => result.value = evaluate(x, variables, prompt)

\* with the inner negation in parentheses the value is that of x
C30_GroupedDoubleNegation ==
    \A x \in Operands :
        (Evaluated /\ text = NotOfGroup(x)) => result.value = evaluate(x, variables, prompt)

=============================================================================
